---- MODULE Spec2Model ----
(***************************************************************************)
(* A model of GitOSINT-mcp: the MCP tool dispatcher and GitOSINTAnalyzer   *)
(* of server.py, the RepositoryAnalyzer of analyzers/repository.py and the *)
(* no-reply patterns of intelligence/email_discovery.py.                    *)
(*                                                                         *)
(* Python strings are sequences of one-character strings, so that strip,   *)
(* split, lower, endswith and the "in" substring test are computed as      *)
(* Python computes them.  A coroutine's result is a record: whether it     *)
(* raised, the exception, the value returned and the trace of the events   *)
(* (HTTP requests, sleeps) it issued, in order.                            *)
(***************************************************************************)
EXTENDS Integers, Sequences, FiniteSets, TLC

VARIABLES
    remote,     \* server.py: what the upstream APIs answer (the environment)
    call,       \* server.py: the last operation invoked, with its arguments
    result,     \* server.py: what that operation returned or raised
    now,        \* concurrent run: the event loop's clock
    pc,         \* concurrent run: each task's position in _analyze_github_repo
    wake,       \* concurrent run: when each sleeping task is due
    reqlog,     \* concurrent run: per task, the times it issued a request at
    done_at,    \* concurrent run: when each finished task returned or raised
    upstream,   \* RepositoryAnalyzer: what the GitHub API answers per facet
    session,    \* the aiohttp session of the analyzer run: "none", "open", "closed"
    analysis,   \* RepositoryAnalyzer: the last analyze()/parse call and its result
    mailbox,    \* EmailDiscovery: the addresses the target's public data holds
    found,      \* EmailDiscovery: the last find() call and its result
    files,      \* SecurityScanner: what fetching each file of the repository gives
    scanned,    \* SecurityScanner: the last scan()/helper call and its result
    environ,    \* config.py: the GITOSINT_MCP_* environment variables
    config,     \* config.py: the global configuration instance
    cli         \* cli.py: one run of main, its position and what it did so far

serverVars == <<remote, call, result>>
concVars == <<now, pc, wake, reqlog, done_at>>
repoVars == <<upstream, session, analysis>>
emailVars == <<mailbox, found>>
scanVars == <<files, scanned>>
configVars == <<environ, config>>
cliVars == <<cli>>
vars == <<serverVars, concVars, repoVars, emailVars, scanVars, configVars, cliVars>>

----------------------------------------------------------------------------
(* Python str operations, on sequences of characters.                      *)

UpperCase ==
    <<"A", "B", "C", "D", "E", "F", "G", "H", "I", "J", "K", "L", "M",
      "N", "O", "P", "Q", "R", "S", "T", "U", "V", "W", "X", "Y", "Z">>
LowerCase ==
    <<"a", "b", "c", "d", "e", "f", "g", "h", "i", "j", "k", "l", "m",
      "n", "o", "p", "q", "r", "s", "t", "u", "v", "w", "x", "y", "z">>

\* str.lower on one character.
LowerChar(c) ==
    IF \E i \in 1..Len(UpperCase) : UpperCase[i] = c
    THEN LowerCase[CHOOSE i \in 1..Len(UpperCase) : UpperCase[i] = c]
    ELSE c

\* str.lower
Lower(s) == [i \in 1..Len(s) |-> LowerChar(s[i])]

\* s.startswith(p)
StartsWith(s, p) == Len(s) >= Len(p) /\ SubSeq(s, 1, Len(p)) = p

\* s.endswith(p)
EndsWith(s, p) == Len(s) >= Len(p) /\ SubSeq(s, Len(s) - Len(p) + 1, Len(s)) = p

\* p in s
Contains(s, p) ==
    \E i \in 1..(Len(s) - Len(p) + 1) : SubSeq(s, i, i + Len(p) - 1) = p

\* s.find(p) + 1: the first position of p in s, 0 when absent.
IndexOf(s, p) ==
    IF Contains(s, p)
    THEN CHOOSE i \in 1..(Len(s) - Len(p) + 1) :
            /\ SubSeq(s, i, i + Len(p) - 1) = p
            /\ \A j \in 1..(i - 1) : SubSeq(s, j, j + Len(p) - 1) # p
    ELSE 0

\* s.strip('/')
RECURSIVE LStrip(_, _)
LStrip(s, c) == IF s # <<>> /\ Head(s) = c THEN LStrip(Tail(s), c) ELSE s

RECURSIVE RStrip(_, _)
RStrip(s, c) ==
    IF s # <<>> /\ s[Len(s)] = c THEN RStrip(SubSeq(s, 1, Len(s) - 1), c) ELSE s

Strip(s, c) == RStrip(LStrip(s, c), c)

\* s.split(c): ''.split('/') is [''], 'a//b'.split('/') is ['a', '', 'b'].
RECURSIVE Split(_, _)
SplitAt(s, c, i) ==
    IF i = 0 THEN <<s>>
    ELSE <<SubSeq(s, 1, i - 1)>> \o Split(SubSeq(s, i + 1, Len(s)), c)

Split(s, c) == SplitAt(s, c, IndexOf(s, <<c>>))

\* urllib.parse.urlparse, for URLs without query or fragment: the netloc is
\* what follows "://" up to the next "/", the path the rest; without "://"
\* the whole string is the path.
NetlocAndPath(rest, j) ==
    IF j = 0 THEN [netloc |-> rest, path |-> <<>>]
    ELSE [netloc |-> SubSeq(rest, 1, j - 1), path |-> SubSeq(rest, j, Len(rest))]

AfterScheme(url, i) ==
    IF i = 0 THEN [netloc |-> <<>>, path |-> url]
    ELSE NetlocAndPath(SubSeq(url, i + 3, Len(url)),
                       IndexOf(SubSeq(url, i + 3, Len(url)), <<"/">>))

urlparse(url) == AfterScheme(url, IndexOf(url, <<":", "/", "/">>))

----------------------------------------------------------------------------
(* The strings of the inputs.                                              *)

Https == <<"h", "t", "t", "p", "s", ":", "/", "/">>
DotGit == <<".", "g", "i", "t">>
GithubCom == <<"g", "i", "t", "h", "u", "b", ".", "c", "o", "m">>
GitlabCom == <<"g", "i", "t", "l", "a", "b", ".", "c", "o", "m">>
BitbucketOrg == <<"b", "i", "t", "b", "u", "c", "k", "e", "t", ".", "o", "r", "g">>
DotGithubCom == <<".">> \o GithubCom
DotGitlabCom == <<".">> \o GitlabCom
Www == <<"w", "w", "w", ".">>
Github == <<"g", "i", "t", "h", "u", "b">>
Gitlab == <<"g", "i", "t", "l", "a", "b">>

Oct == <<"o", "c", "t">>
Zed == <<"z">>
Api == <<"a", "p", "i">>
Slash == <<"/">>
\* Python's None where a string is expected.
PyNone == <<"<None>">>

DigitChars == <<"1", "2", "3", "4", "5", "6", "7", "8", "9">>
HexChars == DigitChars \o <<"a", "b", "c", "d", "e", "f">>
MailA == <<"a", "@", "x">>
MailB == <<"b", "@", "n", "o", "r", "e", "p", "l", "y", ".", "x">>
MailNoAt == <<"n", "a">>

----------------------------------------------------------------------------
(* Results of coroutines, exceptions and events.                           *)

NoErr == [type |-> "none", msg |-> "none", detail |-> <<>>]
NoValue == <<>>
Err(type, msg, detail) == [type |-> type, msg |-> msg, detail |-> detail]
ValueError(msg, detail) == Err("ValueError", msg, detail)
\* httpx raises from client.get on a network error or timeout, and
\* raise_for_status raises HTTPStatusError on a 4xx/5xx status.
ConnectError == Err("ConnectError", "All connection attempts failed", <<>>)
HTTPStatusError == Err("HTTPStatusError", "Client error", <<>>)
KeyError == Err("KeyError", "0", <<>>)
AttributeError == Err("AttributeError", "'NoneType' object has no attribute 'lower'", <<>>)

Ok(v, tr) == [raised |-> FALSE, err |-> NoErr, value |-> v, trace |-> tr]
Raised(e, tr) == [raised |-> TRUE, err |-> e, value |-> NoValue, trace |-> tr]

GetEv(host, ep, owner, repo) ==
    [ev |-> "get", host |-> host, ep |-> ep, owner |-> owner, repo |-> repo]
SleepEv == [ev |-> "sleep", host |-> "-", ep |-> "-", owner |-> <<>>, repo |-> <<>>]

\* set(seq) and list(set): the elements once each, in some order.
SetOf(seq) == {seq[i] : i \in 1..Len(seq)}

RECURSIVE ListOf(_)
ListOf(set) ==
    IF set = {} THEN <<>>
    ELSE <<CHOOSE x \in set : TRUE>> \o ListOf(set \ {CHOOSE x \in set : TRUE})

\* seq[:n]
Take(seq, n) == SubSeq(seq, 1, IF Len(seq) < n THEN Len(seq) ELSE n)
\* seq[-n:]
FirstN(seq, n) == SubSeq(seq, 1, IF Len(seq) < n THEN Len(seq) ELSE n)

LastN(seq, n) == SubSeq(seq, (IF Len(seq) < n THEN 1 ELSE Len(seq) - n + 1), Len(seq))

RECURSIVE SumSeq(_)
SumSeq(seq) == IF seq = <<>> THEN 0 ELSE Head(seq) + SumSeq(Tail(seq))

RECURSIVE MaxSeq(_)
MaxSeq(seq) ==
    IF Len(seq) = 1 THEN seq[1]
    ELSE LET m == MaxSeq(Tail(seq)) IN IF Head(seq) > m THEN Head(seq) ELSE m

----------------------------------------------------------------------------
(* The environment of server.py: user Oct owns repositories r1..r<nrepos>; *)
(* every other user or repository is absent upstream (404).  At most one   *)
(* endpoint is faulty: it answers a non-success status or the request      *)
(* fails on the network.                                                   *)

MaxRepos == 6
MaxWeeks == 5

\* The contributor lists, following list, description and weekly commit
\* totals that the upstream holds.
Shapes ==
    { [n1 |-> 0, n2 |-> 0, seedAt |-> 0, nfollow |-> 0, desc |-> PyNone,
       weeks |-> <<>>, public_email |-> PyNone],
      [n1 |-> 2, n2 |-> 1, seedAt |-> 1, nfollow |-> 3, desc |-> <<"k", "e", "y">>,
       weeks |-> <<5, 10, 3, 8>>, public_email |-> MailA],
      [n1 |-> 10, n2 |-> 10, seedAt |-> 0, nfollow |-> 21, desc |-> <<"d", "o", "c">>,
       weeks |-> [i \in 1..MaxWeeks |-> IF i = 1 THEN 7 ELSE 0], public_email |-> <<>>],
      [n1 |-> 12, n2 |-> 3, seedAt |-> 2, nfollow |-> 3, desc |-> <<"d", "o", "c">>,
       weeks |-> <<0, 0>>, public_email |-> MailB] }

UserPoints == {"user", "repos", "commits", "following", "gl_user", "gl_projects"}
RepoPoints == {"primary", "contributors", "languages", "activity"}
NoFault == [at |-> "none", kind |-> "ok", repo |-> 0]

Faults(n) ==
    {NoFault}
    \cup [at : UserPoints, kind : {"status", "neterr"}, repo : {0}]
    \cup {[at |-> "gl_user", kind |-> "empty", repo |-> 0]}
    \cup [at : RepoPoints, kind : {"status", "neterr"}, repo : 1..n]

Remotes ==
    UNION { [nrepos : {n}, shape : Shapes, fault : Faults(n)] : n \in 0..MaxRepos }

\* The repository <owner>/<repo> upstream: its index, 0 when absent.
RepoIndex(owner, repo) ==
    IF owner = Oct /\ Len(repo) = 2 /\ repo[1] = "r"
       /\ \E i \in 1..remote.nrepos : i <= Len(DigitChars) /\ DigitChars[i] = repo[2]
    THEN CHOOSE i \in 1..remote.nrepos : DigitChars[i] = repo[2]
    ELSE 0

RepoName(i) == <<"r", DigitChars[i]>>

\* What the endpoint `point` of repository `idx` answers: "ok" (200),
\* "status" (a non-success status) or "neterr" (the request raises).
RepoResp(point, idx) ==
    IF idx = 0 THEN "status"
    ELSE IF remote.fault.at = point /\ remote.fault.repo = idx THEN remote.fault.kind
    ELSE "ok"

\* What a user-level endpoint answers for `username`.
UserResp(point, username) ==
    IF username # Oct THEN (IF point = "gl_user" THEN "empty" ELSE "status")
    ELSE IF remote.fault.at = point THEN remote.fault.kind
    ELSE "ok"

\* The body of GET /repos/<owner>/<repo>/contributors.
ContributorsOf(idx) ==
    LET n == IF idx % 2 = 1 THEN remote.shape.n1 ELSE remote.shape.n2
    IN  [k \in 1..n |->
            [login |-> IF k = remote.shape.seedAt THEN Oct ELSE <<"u", HexChars[k]>>,
             contributions |-> n - k + 1,
             email |-> IF k % 2 = 1 THEN <<HexChars[k], "@", "x">> ELSE <<>>]]

\* The body of GET /users/<username>/repos.
ReposOf(username) ==
    [i \in 1..remote.nrepos |-> [name |-> RepoName(i), language |-> <<"p", "y">>]]

\* The author emails of GET /repos/<username>/<repo>/commits.
CommitEmailsOf(idx) ==
    IF idx % 2 = 1 THEN <<MailA, MailNoAt>> ELSE <<MailA, MailB>>

FollowingOf(username) == [k \in 1..remote.shape.nfollow |-> k]

----------------------------------------------------------------------------
(* server.py: GitOSINTAnalyzer.                                            *)

ApiGithub == "api.github.com"
ApiGitlab == "gitlab.com/api/v4"
TopContributors == 10
TopRepos == 5
EmailRepos == 3
MaxFollowing == 20
RecentWeeks == 4

\* The total taken over the recent weeks only.
process_commit_activity_recent_total(activity_data) ==
    IF activity_data = <<>>
    THEN [recent_activity |-> 0, peak_week |-> 0, total_commits |-> 0]
    ELSE [recent_activity |-> SumSeq(LastN(activity_data, RecentWeeks)),
          peak_week |-> MaxSeq(activity_data),
          total_commits |-> SumSeq(LastN(activity_data, RecentWeeks))]

_process_commit_activity(activity_data) ==
    IF activity_data = <<>>
    THEN [recent_activity |-> 0, peak_week |-> 0, total_commits |-> 0]
    ELSE [recent_activity |-> SumSeq(LastN(activity_data, RecentWeeks)),
          peak_week |-> MaxSeq(activity_data),
          total_commits |-> SumSeq(activity_data)]

\* Four requests in a row, the first checked with raise_for_status, the
\* other three by their status code; a request that fails on the network
\* raises out of the coroutine.  One sleep follows the last request.
_analyze_github_repo(owner, repo) ==
    LET idx == RepoIndex(owner, repo)
        t1 == <<GetEv(ApiGithub, "repo", owner, repo)>>
        t2 == Append(t1, GetEv(ApiGithub, "contributors", owner, repo))
        t3 == Append(t2, GetEv(ApiGithub, "languages", owner, repo))
        t4 == Append(t3, GetEv(ApiGithub, "commit_activity", owner, repo))
        r1 == RepoResp("primary", idx)
        r2 == RepoResp("contributors", idx)
        r3 == RepoResp("languages", idx)
        r4 == RepoResp("activity", idx)
        contributors_data == IF r2 = "ok" THEN ContributorsOf(idx) ELSE <<>>
        languages_data == IF r3 = "ok" THEN <<<<"p", "y">>>> ELSE <<>>
        activity_data == IF r4 = "ok" THEN remote.shape.weeks ELSE <<>>
    IN  IF r1 = "neterr" THEN Raised(ConnectError, t1)
        ELSE IF r1 = "status" THEN Raised(HTTPStatusError, t1)
        ELSE IF r2 = "neterr" THEN Raised(ConnectError, t2)
        ELSE IF r3 = "neterr" THEN Raised(ConnectError, t3)
        ELSE IF r4 = "neterr" THEN Raised(ConnectError, t4)
        ELSE Ok([name |-> owner \o Slash \o repo,
                 description |-> remote.shape.desc,
                 contributors |-> Take(contributors_data, TopContributors),
                 commit_activity |-> _process_commit_activity(activity_data),
                 dependencies |-> languages_data],
                Append(t4, SleepEv))

_analyze_gitlab_repo(owner, repo) ==
    LET idx == RepoIndex(owner, repo)
        t1 == <<GetEv(ApiGitlab, "project", owner, repo)>>
        t2 == Append(t1, GetEv(ApiGitlab, "contributors", owner, repo))
        r1 == RepoResp("primary", idx)
        r2 == RepoResp("contributors", idx)
        contributors_data == IF r2 = "ok" THEN ContributorsOf(idx) ELSE <<>>
    IN  IF r1 = "neterr" THEN Raised(ConnectError, t1)
        ELSE IF r1 = "status" THEN Raised(HTTPStatusError, t1)
        ELSE IF r2 = "neterr" THEN Raised(ConnectError, t2)
        ELSE Ok([name |-> owner \o Slash \o repo,
                 description |-> remote.shape.desc,
                 contributors |-> Take(contributors_data, TopContributors),
                 commit_activity |-> [recent_activity |-> 0, peak_week |-> 0,
                                      total_commits |-> 0],
                 dependencies |-> <<>>],
                Append(t2, SleepEv))

\* An analysis that takes every host it does not know for GitHub.
analyze_parsed_github_by_default(netloc, path_parts) ==
    IF Len(path_parts) < 2
    THEN Raised(ValueError("Invalid repository URL format", <<>>), <<>>)
    ELSE IF netloc = GitlabCom \/ EndsWith(netloc, DotGitlabCom)
    THEN _analyze_gitlab_repo(path_parts[1], path_parts[2])
    ELSE _analyze_github_repo(path_parts[1], path_parts[2])

\* The URL is split into owner and repository before the platform is
\* looked at; both checks precede the first request.  The repository name
\* is used as it stands in the path.
analyze_parsed(netloc, path_parts) ==
    IF Len(path_parts) < 2
    THEN Raised(ValueError("Invalid repository URL format", <<>>), <<>>)
    ELSE IF netloc = GithubCom \/ EndsWith(netloc, DotGithubCom)
    THEN _analyze_github_repo(path_parts[1], path_parts[2])
    ELSE IF netloc = GitlabCom \/ EndsWith(netloc, DotGitlabCom)
    THEN _analyze_gitlab_repo(path_parts[1], path_parts[2])
    ELSE Raised(ValueError("Unsupported platform", netloc), <<>>)

path_parts_of(parsed_url) == Split(Strip(parsed_url.path, "/"), "/")

analyze_split(parsed_url) == analyze_parsed(parsed_url.netloc, path_parts_of(parsed_url))

analyze_repository(repo_url) == analyze_split(urlparse(repo_url))

\* One request per repository of repos[:3]; a request that raises skips
\* that repository's sleep.
HasAt(e) == Contains(e, <<"@">>)

commits_of_repo(username, repo_name, r, rest) ==
    [emails |-> (IF r = "ok"
                 THEN SelectSeq(CommitEmailsOf(RepoIndex(username, repo_name)), HasAt)
                 ELSE <<>>) \o rest.emails,
     trace |-> (IF r = "neterr"
                THEN <<GetEv(ApiGithub, "commits", username, repo_name)>>
                ELSE <<GetEv(ApiGithub, "commits", username, repo_name), SleepEv>>)
               \o rest.trace]

RECURSIVE _extract_emails_from_repos(_, _)
_extract_emails_from_repos(username, repos) ==
    IF repos = <<>> THEN [emails |-> <<>>, trace |-> <<>>]
    ELSE commits_of_repo(username, Head(repos).name, UserResp("commits", username),
                         _extract_emails_from_repos(username, Tail(repos)))

following_of(username, r) ==
    [connections |-> Take(IF r = "ok" THEN FollowingOf(username) ELSE <<>>,
                          MaxFollowing),
     trace |-> IF r = "neterr"
               THEN <<GetEv(ApiGithub, "following", username, <<>>)>>
               ELSE <<GetEv(ApiGithub, "following", username, <<>>), SleepEv>>]

_find_social_connections(username) ==
    following_of(username, UserResp("following", username))

\* A discovery that returns the commit emails as they were collected.
github_user_intel_every_commit_email(username, repos_data, mails, social) ==
    Ok([username |-> username,
        email_addresses |-> mails.emails,
        repositories |-> repos_data,
        commit_count |-> Len(repos_data),
        social_connections |-> social.connections],
       <<GetEv(ApiGithub, "user", username, <<>>),
         GetEv(ApiGithub, "repos", username, <<>>)>>
       \o mails.trace \o <<SleepEv>> \o social.trace)

github_user_intel(username, repos_data, mails, social) ==
    Ok([username |-> username,
        email_addresses |-> ListOf(SetOf(mails.emails)),
        repositories |-> repos_data,
        commit_count |-> Len(repos_data),
        social_connections |-> social.connections],
       <<GetEv(ApiGithub, "user", username, <<>>),
         GetEv(ApiGithub, "repos", username, <<>>)>>
       \o mails.trace \o <<SleepEv>> \o social.trace)

github_user_repos(username, repos_data) ==
    github_user_intel(username, repos_data,
                      _extract_emails_from_repos(username,
                          Take(Take(repos_data, TopRepos), EmailRepos)),
                      _find_social_connections(username))

github_user_answers(username, r1, r2) ==
    IF r1 = "neterr"
    THEN Raised(ConnectError, <<GetEv(ApiGithub, "user", username, <<>>)>>)
    ELSE IF r1 = "status"
    THEN Raised(HTTPStatusError, <<GetEv(ApiGithub, "user", username, <<>>)>>)
    ELSE IF r2 = "neterr"
    THEN Raised(ConnectError, <<GetEv(ApiGithub, "user", username, <<>>),
                                GetEv(ApiGithub, "repos", username, <<>>)>>)
    ELSE github_user_repos(username, IF r2 = "ok" THEN ReposOf(username) ELSE <<>>)

_discover_github_user(username) ==
    github_user_answers(username, UserResp("user", username), UserResp("repos", username))

\* The search answer is not checked for its status: an error body is a
\* dict, and indexing it with 0 raises KeyError.
gitlab_user_intel(username, projects_data) ==
    Ok([username |-> username,
        email_addresses |-> IF remote.shape.public_email \in {PyNone, <<>>} THEN <<>>
                            ELSE <<remote.shape.public_email>>,
        repositories |-> projects_data,
        commit_count |-> Len(projects_data),
        social_connections |-> <<>>],
       <<GetEv(ApiGitlab, "users", username, <<>>),
         GetEv(ApiGitlab, "projects", username, <<>>), SleepEv>>)

gitlab_user_answers(username, r1, r2) ==
    IF r1 = "neterr"
    THEN Raised(ConnectError, <<GetEv(ApiGitlab, "users", username, <<>>)>>)
    ELSE IF r1 = "empty"
    THEN Raised(ValueError("User not found on GitLab", username),
                <<GetEv(ApiGitlab, "users", username, <<>>)>>)
    ELSE IF r1 = "status"
    THEN Raised(KeyError, <<GetEv(ApiGitlab, "users", username, <<>>)>>)
    ELSE IF r2 = "neterr"
    THEN Raised(ConnectError, <<GetEv(ApiGitlab, "users", username, <<>>),
                                GetEv(ApiGitlab, "projects", username, <<>>)>>)
    ELSE gitlab_user_intel(username, IF r2 = "ok" THEN ReposOf(username) ELSE <<>>)

_discover_gitlab_user(username) ==
    gitlab_user_answers(username, UserResp("gl_user", username),
                        UserResp("gl_projects", username))

discover_on(username, platform, lowered) ==
    IF lowered = Github THEN _discover_github_user(username)
    ELSE IF lowered = Gitlab THEN _discover_gitlab_user(username)
    ELSE Raised(ValueError("Unsupported platform", platform), <<>>)

\* A discovery that compares the platform as it was spelled.
discover_user_info_case_sensitive(username, platform) ==
    discover_on(username, platform, platform)

discover_user_info(username, platform) == discover_on(username, platform, Lower(platform))

\* Both platforms are tried for a user; whatever discovery or analysis
\* raises is swallowed.
user_emails(gh, gl) ==
    Ok((IF gh.raised THEN {} ELSE SetOf(gh.value.email_addresses))
         \cup (IF gl.raised THEN {} ELSE SetOf(gl.value.email_addresses)),
       gh.trace \o gl.trace)

contributor_emails(contributors) ==
    {contributors[i].email :
        i \in {j \in 1..Len(contributors) : contributors[j].email # <<>>}}

repo_emails(repo_intel) ==
    Ok(IF repo_intel.raised THEN {} ELSE contributor_emails(repo_intel.value.contributors),
       repo_intel.trace)

emails_of(target, search_type) ==
    IF search_type = <<"u", "s", "e", "r">>
    THEN user_emails(discover_user_info(target, Github), discover_user_info(target, Gitlab))
    ELSE IF search_type = <<"r", "e", "p", "o">>
    THEN repo_emails(analyze_repository(target))
    ELSE Ok({}, <<>>)

\* return list(emails)
list_of_emails(r) == Ok(ListOf(r.value), r.trace)

find_emails(target, search_type) == list_of_emails(emails_of(target, search_type))

\* The loop of map_social_network over the repositories examined: a
\* repository whose analysis raises is skipped, together with its sleep.
\* The contributors of one repository other than the seed user, as edges.
collaborators(others) ==
    [i \in 1..Len(others) |->
        [username |-> others[i].login,
         contributions |-> others[i].contributions,
         type |-> "collaborator"]]

\* Every contributor taken as an edge, the seed user too.
repo_connections_of_everyone(contributors, username) == collaborators(contributors)

repo_connections_of(contributors, username) ==
    collaborators(SelectSeq(contributors, LAMBDA c : c.login # username))

\* The total counting the repositories recorded.
record_connections_counting_repositories(network, name, repo_connections) ==
    [network EXCEPT
        !.connections = [n \in DOMAIN network.connections \cup {name} |->
                            IF n = name THEN repo_connections
                            ELSE network.connections[n]],
        !.total_connections = @ + 1]

record_connections(network, name, repo_connections) ==
    [network EXCEPT
        !.connections = [n \in DOMAIN network.connections \cup {name} |->
                            IF n = name THEN repo_connections
                            ELSE network.connections[n]],
        !.total_connections = @ + Len(repo_connections)]

\* A failed analysis discarding what was recorded so far.
after_repository_failure_clears(network, name, repo_intel, username) ==
    IF repo_intel.raised
    THEN [network EXCEPT !.connections = <<>>, !.total_connections = 0]
    ELSE record_connections(network, name,
                            repo_connections_of(repo_intel.value.contributors, username))

after_repository(network, name, repo_intel, username) ==
    IF repo_intel.raised THEN network
    ELSE record_connections(network, name,
                            repo_connections_of(repo_intel.value.contributors, username))

prepend_trace(repo_intel, rest) ==
    [network |-> rest.network,
     trace |-> repo_intel.trace
               \o (IF repo_intel.raised THEN <<>> ELSE <<SleepEv>>)
               \o rest.trace]

RECURSIVE map_repositories(_, _, _)
map_one_repository(username, repos, network, repo_intel) ==
    prepend_trace(repo_intel,
                  map_repositories(username, Tail(repos),
                                   after_repository(network, Head(repos).name,
                                                    repo_intel, username)))

map_repositories(username, repos, network) ==
    IF repos = <<>> THEN [network |-> network, trace |-> <<>>]
    ELSE map_one_repository(username, repos, network,
             analyze_repository(Https \o GithubCom \o Slash \o username \o Slash
                                \o Head(repos).name))

network_of(user_intel, mapped) == Ok(mapped.network, user_intel.trace \o mapped.trace)

map_from(username, network, user_intel) ==
    IF user_intel.raised THEN Ok(network, user_intel.trace)
    ELSE network_of(user_intel,
                    map_repositories(username,
                                     Take(user_intel.value.repositories, TopRepos),
                                     network))

map_social_network(username, depth) ==
    map_from(username,
             [center |-> username, connections |-> <<>>, depth |-> depth,
              total_connections |-> 0],
             discover_user_info(username, Github))

SensitiveTerms ==
    { <<"p", "a", "s", "s", "w", "o", "r", "d">>, <<"k", "e", "y">>,
      <<"s", "e", "c", "r", "e", "t">>, <<"t", "o", "k", "e", "n">> }

\* A description of None has no lower(): the AttributeError is caught like
\* a failed analysis and reported as a scan_error issue.  No upstream
\* language name contains one of the suspicious dependency names.
issues_of(description, recent_activity) ==
    (IF \E k \in SensitiveTerms : Contains(description, k)
     THEN <<"potential_secret_exposure">> ELSE <<>>)
    \o (IF recent_activity = 0 THEN <<"inactive_repository">> ELSE <<>>)

scan_intel(repo_intel) ==
    IF repo_intel.raised \/ repo_intel.value.description = PyNone
    THEN Ok(<<"scan_error">>, repo_intel.trace)
    ELSE Ok(issues_of(Lower(repo_intel.value.description),
                      repo_intel.value.commit_activity.recent_activity),
            repo_intel.trace)

scan_security_issues(repo_url) == scan_intel(analyze_repository(repo_url))

----------------------------------------------------------------------------
(* server.py: the MCP tool dispatcher.                                     *)

AbsentInt == -1
DefaultDepth == 2
NoArguments ==
    [repo_url |-> PyNone, username |-> PyNone, platform |-> PyNone,
     target |-> PyNone, search_type |-> PyNone, depth |-> AbsentInt]

\* not x, for a string or None
Falsy(x) == x = PyNone \/ x = <<>>
\* arguments.get(key, default), given arguments[key]
OrDefault(x, default) == IF x = PyNone THEN default ELSE x

emails_json(r) == Ok([emails |-> r.value, count |-> Len(r.value)], r.trace)
issues_json(r) == Ok([security_issues |-> r.value, count |-> Len(r.value)], r.trace)

\* The body of the try block: the value is the object handed to json.dumps.
call_tool_body(name, arguments) ==
    IF name = "analyze_repository"
    THEN IF Falsy(arguments.repo_url)
         THEN Raised(ValueError("Repository URL is required", <<>>), <<>>)
         ELSE analyze_repository(arguments.repo_url)
    ELSE IF name = "discover_user_info"
    THEN IF Falsy(arguments.username)
         THEN Raised(ValueError("Username is required", <<>>), <<>>)
         ELSE discover_user_info(arguments.username,
                                 OrDefault(arguments.platform, Github))
    ELSE IF name = "find_emails"
    THEN IF Falsy(arguments.target)
         THEN Raised(ValueError("Target is required", <<>>), <<>>)
         ELSE emails_json(find_emails(arguments.target,
                                      OrDefault(arguments.search_type,
                                                <<"u", "s", "e", "r">>)))
    ELSE IF name = "map_social_network"
    THEN IF Falsy(arguments.username)
         THEN Raised(ValueError("Username is required", <<>>), <<>>)
         ELSE map_social_network(arguments.username,
                                 IF arguments.depth = AbsentInt THEN DefaultDepth
                                 ELSE arguments.depth)
    ELSE IF name = "scan_security_issues"
    THEN IF Falsy(arguments.repo_url)
         THEN Raised(ValueError("Repository URL is required", <<>>), <<>>)
         ELSE issues_json(scan_security_issues(arguments.repo_url))
    ELSE Raised(ValueError("Unknown tool", <<>>), <<>>)

TextContent(json) == [type |-> "text", text |-> json]

\* A dispatcher that catches ValueError alone.
text_content_of_value_errors(r) ==
    IF r.raised /\ r.err.type = "ValueError"
    THEN Ok(<<TextContent([error |-> [msg |-> r.err.msg, detail |-> r.err.detail]])>>,
            r.trace)
    ELSE IF r.raised THEN r
    ELSE Ok(<<TextContent(r.value)>>, r.trace)

\* except Exception: whatever the body raised becomes {"error": str(e)}.
text_content_of(r) ==
    IF r.raised
    THEN Ok(<<TextContent([error |-> [msg |-> r.err.msg, detail |-> r.err.detail]])>>,
            r.trace)
    ELSE Ok(<<TextContent(r.value)>>, r.trace)

handle_call_tool(name, arguments) == text_content_of(call_tool_body(name, arguments))

----------------------------------------------------------------------------
(* The inputs of the server's operations.                                  *)

GithubUrl(path) == Https \o GithubCom \o path
UrlR1 == GithubUrl(Slash \o Oct \o Slash \o RepoName(1))
UrlR2Git == GithubUrl(Slash \o Oct \o Slash \o RepoName(2) \o DotGit)
UrlOneSegment == GithubUrl(Slash \o Oct)
UrlOneSegmentSlash == GithubUrl(Slash \o Oct \o Slash)
UrlNoPath == GithubUrl(<<>>)
UrlAbsent == GithubUrl(Slash \o Zed \o Slash \o RepoName(1))
UrlSubdomain == Https \o Api \o DotGithubCom \o Slash \o Oct \o Slash \o RepoName(2)
UrlGitlab == Https \o GitlabCom \o Slash \o Oct \o Slash \o RepoName(1)
UrlBitbucket == Https \o BitbucketOrg \o Slash \o Oct \o Slash \o RepoName(1)
UrlBitbucketShort == Https \o BitbucketOrg \o Slash \o Oct
UrlNoScheme == Oct \o Slash \o RepoName(1)

UrlInputs ==
    { UrlR1, UrlR2Git, UrlOneSegment, UrlOneSegmentSlash, UrlNoPath, UrlAbsent,
      UrlSubdomain, UrlGitlab, UrlBitbucket, UrlBitbucketShort, UrlNoScheme }

Usernames == {Oct, Zed}
PlatformInputs ==
    { Github, Gitlab, <<"G", "i", "t", "H", "u", "b">>, <<"G", "I", "T", "L", "A", "B">>,
      <<"b", "i", "t", "b", "u", "c", "k", "e", "t">>, <<"g", "i", "t">>, <<>> }
SearchTypes == {<<"u", "s", "e", "r">>, <<"r", "e", "p", "o">>, <<"o", "r", "g">>}
Depths == {1, 3}

ToolNames ==
    { "analyze_repository", "discover_user_info", "find_emails",
      "map_social_network", "scan_security_issues" }

RepoArgs == {[NoArguments EXCEPT !.repo_url = u] : u \in UrlInputs \cup {<<>>}}
UserArgs ==
    {[NoArguments EXCEPT !.username = n, !.platform = p] :
        n \in Usernames \cup {<<>>}, p \in {PyNone, Gitlab, <<"g", "i", "t">>}}
    \cup {[NoArguments EXCEPT !.username = Oct, !.platform = p] : p \in PlatformInputs}
NetworkArgs ==
    {[NoArguments EXCEPT !.username = n, !.depth = d] :
        n \in Usernames \cup {<<>>}, d \in Depths \cup {AbsentInt}}
EmailArgs ==
    {[NoArguments EXCEPT !.target = t, !.search_type = st] :
        t \in {Oct, <<>>, UrlR1, UrlOneSegment, UrlBitbucket},
        st \in SearchTypes \cup {PyNone}}

\* The argument dictionaries a tool is called with: its own, the empty one
\* and one meant for another tool.
ArgumentsFor(name) ==
    {NoArguments}
    \cup (CASE name \in {"analyze_repository", "scan_security_issues"} ->
                 RepoArgs \cup {[NoArguments EXCEPT !.username = Oct]}
            [] name = "discover_user_info" ->
                 UserArgs \cup {[NoArguments EXCEPT !.repo_url = UrlR1]}
            [] name = "find_emails" ->
                 EmailArgs \cup {[NoArguments EXCEPT !.username = Oct]}
            [] name = "map_social_network" ->
                 NetworkArgs \cup {[NoArguments EXCEPT !.target = Oct]}
            [] OTHER -> {[NoArguments EXCEPT !.repo_url = UrlR1]})

NoCall == [via |-> "none", name |-> "none", arguments |-> NoArguments]
NoResult == Ok(<<>>, <<>>)

----------------------------------------------------------------------------
(* The variables of the other components while one component runs.         *)

NoRemote == [nrepos |-> 0, shape |-> CHOOSE sh \in Shapes : sh.n1 = 0, fault |-> NoFault]
Idle == <<>>

notServer == <<concVars, repoVars, emailVars, scanVars, configVars, cliVars>>
notConc == <<serverVars, repoVars, emailVars, scanVars, configVars, cliVars>>
notRepo == <<serverVars, concVars, emailVars, scanVars, configVars, cliVars>>
notEmail == <<serverVars, concVars, repoVars, scanVars, configVars, cliVars>>

----------------------------------------------------------------------------
(* The server: tool calls over MCP and direct calls of the analyzer, one    *)
(* at a time.                                                              *)

Init ==
    /\ cli = Idle
    /\ remote \in Remotes
    /\ call = NoCall
    /\ result = NoResult
    /\ now = 0 /\ pc = Idle /\ wake = Idle /\ reqlog = Idle /\ done_at = Idle
    /\ upstream = Idle /\ session = "none" /\ analysis = Idle
    /\ mailbox = Idle /\ found = Idle
    /\ files = Idle /\ scanned = Idle /\ environ = Idle /\ config = Idle

\* A tool call arrives: any tool name, known or not.
HandleCallTool ==
    \E name \in ToolNames \cup {"unknown_tool"} :
        \E arguments \in ArgumentsFor(name) :
            /\ call = NoCall
            /\ call' = [via |-> "mcp", name |-> name, arguments |-> arguments]
            /\ result' = handle_call_tool(name, arguments)
            /\ UNCHANGED <<remote, notServer>>

\* analyzer.discover_user_info called directly, as the unit tests do.
DiscoverUserInfo ==
    \E username \in Usernames, platform \in PlatformInputs :
        /\ call = NoCall
        /\ call' = [via |-> "direct", name |-> "discover_user_info",
                    arguments |-> [NoArguments EXCEPT !.username = username,
                                                      !.platform = platform]]
        /\ result' = discover_user_info(username, platform)
        /\ UNCHANGED <<remote, notServer>>

\* The answer goes back to the caller; the next call may arrive.
SendResponse ==
    /\ call # NoCall
    /\ call' = NoCall
    /\ result' = NoResult
    /\ UNCHANGED <<remote, notServer>>

Next == HandleCallTool \/ DiscoverUserInfo \/ SendResponse

Spec == Init /\ [][Next]_vars


----------------------------------------------------------------------------
(* Properties of the tool dispatcher.                                      *)

\* The argument a tool requires.
RequiredArgument(name, arguments) ==
    CASE name \in {"analyze_repository", "scan_security_issues"} -> arguments.repo_url
      [] name \in {"discover_user_info", "map_social_network"} -> arguments.username
      [] name = "find_emails" -> arguments.target
      [] OTHER -> PyNone

MissingArgument == call.name \in ToolNames /\ Falsy(RequiredArgument(call.name, call.arguments))
Answer == result.value[1].text
HasError == "error" \in DOMAIN Answer

\* C1: handle_call_tool returns exactly one text content and lets no
\* exception out, whatever the tool name and the arguments; when the tool is
\* unknown, a required argument is missing or the analyzer raises, the
\* content is an object with an "error" key carrying the failure message.
C1_OneTextContentNeverRaises ==
    call.via = "mcp" =>
        /\ ~result.raised
        /\ Len(result.value) = 1
        /\ result.value[1].type = "text"
        /\ call.name \notin ToolNames => HasError /\ Answer.error.msg = "Unknown tool"
        /\ MissingArgument =>
              HasError /\ Answer.error.msg \in {"Repository URL is required",
                                                "Username is required",
                                                "Target is required"}
        /\ call_tool_body(call.name, call.arguments).raised =>
              HasError /\ Answer.error.msg = call_tool_body(call.name, call.arguments).err.msg

\* A call whose analyzer failed on the network, answered with an error object.
C1_Witness ==
    /\ call.via = "mcp" /\ call.name = "analyze_repository"
    /\ call.arguments.repo_url = UrlR1
    /\ remote.fault = [at |-> "primary", kind |-> "neterr", repo |-> 1]
    /\ ~result.raised /\ HasError
    /\ Answer.error.msg = ConnectError.msg

\* The path segments of a URL that are not empty.
NonEmptySegments(url) == SelectSeq(Split(urlparse(url).path, "/"), LAMBDA seg : seg # <<>>)

\* The hosts server.py analyzes: github.com, gitlab.com and their subdomains.
ServedHost(url) ==
    \E h \in {GithubCom, GitlabCom} :
        urlparse(url).netloc = h \/ EndsWith(urlparse(url).netloc, <<".">> \o h)

BadUrl(url) == Len(NonEmptySegments(url)) < 2 \/ ~ServedHost(url)

UnsupportedPlatform(platform) == Lower(platform) \notin {Github, Gitlab}

\* The calls that argument validation must turn down.
InvalidCall ==
    \/ MissingArgument
    \/ /\ call.name \in {"analyze_repository", "scan_security_issues"}
       /\ BadUrl(call.arguments.repo_url)
    \/ /\ call.name = "find_emails"
       /\ call.arguments.search_type = <<"r", "e", "p", "o">>
       /\ BadUrl(call.arguments.target)
    \/ /\ call.name = "discover_user_info"
       /\ UnsupportedPlatform(OrDefault(call.arguments.platform, Github))

C5_WitnessCase ==
    /\ call.via = "direct" /\ call.name = "discover_user_info"
    /\ call.arguments.username = Oct
    /\ call.arguments.platform = <<"G", "I", "T", "L", "A", "B">>
    /\ ~result.raised

Gets(trace) == {i \in 1..Len(trace) : trace[i].ev = "get"}

\* C6: between any two requests to the same host a rate-limit wait is
\* taken.
C6_WaitBetweenRequests ==
    call # NoCall =>
        \A i, j \in Gets(result.trace) :
            i < j /\ result.trace[i].host = result.trace[j].host =>
                \E k \in (i + 1)..(j - 1) : result.trace[k].ev = "sleep"

SecondaryPoints == {"contributors", "languages", "activity"}

\* C8: repository analysis with one failing secondary facet still fetches
\* every facet and returns a record.
C8_SecondaryFailureTolerated ==
    /\ call.via = "mcp" /\ call.name = "analyze_repository"
    /\ call.arguments.repo_url = UrlR1
    /\ remote.nrepos >= 1
    /\ remote.fault.at \in SecondaryPoints /\ remote.fault.repo = 1
    => /\ ~HasError
       /\ Cardinality(Gets(result.trace)) = 4

\* A secondary facet answered with an error status is left empty.
SecondaryStatusFailureTolerated ==
    /\ call.via = "mcp" /\ call.name = "analyze_repository"
    /\ call.arguments.repo_url = UrlR1
    /\ remote.nrepos >= 1
    /\ remote.fault.at \in SecondaryPoints /\ remote.fault.repo = 1
    /\ remote.fault.kind = "status"
    => /\ ~HasError
       /\ Cardinality(Gets(result.trace)) = 4

max_social_connections == 20

\* C9: social mapping returns at most max_social_connections connections.
C9_ConnectionsBounded ==
    call.via = "mcp" /\ call.name = "map_social_network" /\ ~HasError =>
        Answer.total_connections <= max_social_connections


----------------------------------------------------------------------------
(* analyzers/repository.py: RepositoryAnalyzer.  The analyzer's operators  *)
(* take the upstream's answers `up` and the session `sess` they run with.  *)

\* What the upstream answers on each of the analyzer's endpoints, and the
\* byte counts of the languages endpoint.
Answers == {"ok", "status", "neterr"}
LanguageBytes == { <<>>, <<0, 0>>, <<3, 1>>, <<1, 1, 1>>, <<5>> }
Upstreams == [info : Answers, contributors : Answers, languages : Answers,
              bytes : LanguageBytes]

\* session.get on a closed session raises, as a network error does.
session_get(up, sess, point) == IF sess = "closed" THEN "neterr" ELSE up[point]

\* if not self.session: self.session = aiohttp.ClientSession(...)
session_of(sess) == IF sess = "none" THEN "open" ELSE sess

platform_parsers == {GithubCom, GitlabCom, BitbucketOrg}

remove_www(domain) ==
    IF StartsWith(domain, Www) THEN SubSeq(domain, 5, Len(domain)) ELSE domain

remove_git_suffix(repo_name) ==
    IF EndsWith(repo_name, DotGit) THEN SubSeq(repo_name, 1, Len(repo_name) - 4)
    ELSE repo_name

parse_parts(url, domain, path_parts) ==
    IF Len(path_parts) < 2
    THEN Raised(ValueError("Invalid repository URL format", url), <<>>)
    ELSE IF domain \notin platform_parsers
    THEN Raised(ValueError("Unsupported platform", domain), <<>>)
    ELSE Ok([platform |-> domain, owner |-> path_parts[1],
             repo_name |-> remove_git_suffix(path_parts[2])], <<>>)

parse_parsed(url, parsed) ==
    parse_parts(url, remove_www(Lower(parsed.netloc)),
                Split(Strip(parsed.path, "/"), "/"))

_parse_repository_url(url) == parse_parsed(url, urlparse(url))

is_domain_allowed(domain) == domain \in {GithubCom, GitlabCom, BitbucketOrg}

\* None on a status other than 200 and None on an exception alike.
_get_github_repo_info(up, sess, owner, repo) ==
    IF session_get(up, sess, "info") = "ok"
    THEN [name |-> repo, owner |-> owner, full_name |-> owner \o Slash \o repo]
    ELSE PyNone

_get_repository_info(up, sess, platform, owner, repo) ==
    IF platform = GithubCom THEN _get_github_repo_info(up, sess, owner, repo)
    ELSE PyNone

_get_github_contributors(up, sess, owner, repo) ==
    IF session_get(up, sess, "contributors") = "ok"
    THEN <<[login |-> Zed, contributions |-> 1]>>
    ELSE <<>>

_get_contributors(up, sess, platform, owner, repo) ==
    IF platform = GithubCom THEN _get_github_contributors(up, sess, owner, repo)
    ELSE <<>>

\* (bytes_count / total_bytes) * 100 as the fraction num/den; the raw counts
\* when the total is zero.
\* The division made whatever the total.
language_shares_unguarded(data, total_bytes) ==
    [i \in 1..Len(data) |-> [num |-> data[i] * 100, den |-> total_bytes]]

language_shares(data, total_bytes) ==
    IF total_bytes > 0
    THEN [i \in 1..Len(data) |-> [num |-> data[i] * 100, den |-> total_bytes]]
    ELSE [i \in 1..Len(data) |-> [num |-> data[i], den |-> 1]]

_get_github_languages(up, sess, owner, repo) ==
    IF session_get(up, sess, "languages") = "ok"
    THEN language_shares(up.bytes, SumSeq(up.bytes))
    ELSE <<>>

_get_languages(up, sess, platform, owner, repo) ==
    IF platform = GithubCom THEN _get_github_languages(up, sess, owner, repo)
    ELSE <<>>

_analyze_commits ==
    [total_commits |-> 0, recent_activity |-> <<>>, commit_frequency |-> <<>>,
     author_statistics |-> <<>>]

\* The requests of one analysis, in the order they are issued.
facet_requests(platform, owner, repo, include_contributors) ==
    IF platform # GithubCom THEN <<>>
    ELSE <<GetEv(ApiGithub, "repo", owner, repo)>>
         \o (IF include_contributors
             THEN <<GetEv(ApiGithub, "contributors", owner, repo)>> ELSE <<>>)
         \o <<GetEv(ApiGithub, "languages", owner, repo)>>

\* The commit analysis made whenever it is asked for.
detailed_facets_commits_at_any_depth(depth, include_commits) ==
    (IF depth # "detailed" THEN <<>> ELSE <<"topics", "branches", "releases">>)
    \o (IF include_commits THEN <<"commit_analysis">> ELSE <<>>)

detailed_facets(depth, include_commits) ==
    IF depth # "detailed" THEN <<>>
    ELSE <<"topics", "branches", "releases">>
         \o (IF include_commits THEN <<"commit_analysis">> ELSE <<>>)

\* The facets analyze gets, in the order of its awaits.
facets_called(depth, include_contributors, include_commits) ==
    <<"basic_info">>
    \o (IF include_contributors THEN <<"contributors">> ELSE <<>>)
    \o <<"languages">>
    \o detailed_facets(depth, include_commits)

analyze_facets(up, sess, url, p, depth, include_contributors, include_commits) ==
    Ok([repository_url |-> url,
        platform |-> p.platform,
        analysis_depth |-> depth,
        basic_info |-> _get_repository_info(up, sess, p.platform, p.owner, p.repo_name),
        contributors |-> IF include_contributors
                         THEN _get_contributors(up, sess, p.platform, p.owner, p.repo_name)
                         ELSE PyNone,
        languages |-> _get_languages(up, sess, p.platform, p.owner, p.repo_name),
        detailed |-> detailed_facets(depth, include_commits)],
       facet_requests(p.platform, p.owner, p.repo_name, include_contributors))

analyze_parsed_url(up, sess, url, parsed, depth, include_contributors, include_commits) ==
    IF parsed.raised THEN parsed
    ELSE IF ~is_domain_allowed(parsed.value.platform)
    THEN Raised(ValueError("is not allowed by configuration", parsed.value.platform), <<>>)
    ELSE analyze_facets(up, session_of(sess), url, parsed.value, depth,
                        include_contributors, include_commits)

analyze(up, sess, url, depth, include_contributors, include_commits) ==
    analyze_parsed_url(up, sess, url, _parse_repository_url(url), depth,
                       include_contributors, include_commits)

\* The session the analyzer holds once analyze has returned or raised.
session_after_analyze(sess, outcome) == IF outcome.raised THEN sess ELSE session_of(sess)

\* core/network.py: None on an error status and None on a network error.
fetch_url(answer) == IF answer = "ok" THEN <<"r", "e", "s", "p">> ELSE PyNone

UrlWww == Https \o Www \o GithubCom \o Slash \o Oct \o Slash \o RepoName(1) \o DotGit
UrlUpperHost == Https \o <<"G", "i", "t", "H", "u", "b", ".", "c", "o", "m">>
                      \o Slash \o Oct \o Slash \o RepoName(1)
UrlMalicious == Https \o <<"m", "a", "l", "i", "c", "i", "o", "u", "s", ".", "c", "o", "m">>
                      \o Slash \o Oct \o Slash \o RepoName(1)
RepositoryUrls == UrlInputs \cup {UrlWww, UrlUpperHost, UrlMalicious}


AnalysisDepths == {"basic", "detailed"}

InitRepo ==
    /\ cli = Idle
    /\ upstream \in Upstreams
    /\ session = "none"
    /\ analysis = Idle
    /\ remote = NoRemote /\ call = NoCall /\ result = NoResult
    /\ now = 0 /\ pc = Idle /\ wake = Idle /\ reqlog = Idle /\ done_at = Idle
    /\ mailbox = Idle /\ found = Idle
    /\ files = Idle /\ scanned = Idle /\ environ = Idle /\ config = Idle

\* async with RepositoryAnalyzer(config) as analyzer: a fresh session.
AEnter ==
    /\ analysis = Idle
    /\ session' = "open"
    /\ analysis' = Idle
    /\ UNCHANGED <<upstream, notRepo>>

\* __aexit__ closes the session the analyzer holds, whoever created it.
AExit ==
    /\ analysis = Idle
    /\ session # "none"
    /\ session' = "closed"
    /\ analysis' = Idle
    /\ UNCHANGED <<upstream, notRepo>>

Analyze ==
    \E url \in RepositoryUrls, depth \in AnalysisDepths,
       include_contributors \in BOOLEAN, include_commits \in BOOLEAN :
        /\ analysis = Idle
        /\ analysis' = [op |-> "analyze", url |-> url, depth |-> depth,
                        include_contributors |-> include_contributors,
                        include_commits |-> include_commits,
                        session |-> session,
                        outcome |-> analyze(upstream, session, url, depth,
                                            include_contributors, include_commits),
                        calls |-> IF analyze(upstream, session, url, depth,
                                             include_contributors, include_commits).raised
                                  THEN <<>>
                                  ELSE facets_called(depth, include_contributors,
                                                     include_commits)]
        /\ session' = session_after_analyze(session, analysis'.outcome)
        /\ UNCHANGED <<upstream, notRepo>>

ParseRepositoryUrl ==
    \E url \in RepositoryUrls :
        /\ analysis = Idle
        /\ analysis' = [op |-> "parse", url |-> url, outcome |-> _parse_repository_url(url)]
        /\ UNCHANGED <<upstream, session, notRepo>>

FetchUrl ==
    /\ analysis = Idle
    /\ analysis' = [op |-> "fetch_url", outcome |-> fetch_url(upstream.info)]
    /\ UNCHANGED <<upstream, session, notRepo>>

\* The caller takes the outcome; the analyzer is ready for the next call.
TakeOutcome ==
    /\ analysis # Idle
    /\ analysis' = Idle
    /\ UNCHANGED <<upstream, session, notRepo>>

NextRepo == AEnter \/ AExit \/ Analyze \/ ParseRepositoryUrl \/ FetchUrl \/ TakeOutcome
SpecRepo == InitRepo /\ [][NextRepo]_vars

\* C3: on the MCP path, a repository URL on a served host with at least two
\* path segments is analyzed as (owner, name) = its first two segments with
\* a trailing ".git" removed from the name: every request names that pair.
C3_ServerStripsGitSuffix ==
    /\ call.via = "mcp" /\ call.name = "analyze_repository"
    /\ ~Falsy(call.arguments.repo_url) /\ ~BadUrl(call.arguments.repo_url)
    => \A i \in Gets(result.trace) :
          /\ result.trace[i].owner = NonEmptySegments(call.arguments.repo_url)[1]
          /\ result.trace[i].repo =
                remove_git_suffix(NonEmptySegments(call.arguments.repo_url)[2])

\* The analyzer's own parser: owner and name are the first two segments,
\* ".git" is removed, and fewer than two segments is the invalid-URL error.
ParserStripsGitSuffix ==
    analysis # Idle /\ analysis.op = "parse" =>
        IF Len(NonEmptySegments(analysis.url)) < 2
        THEN analysis.outcome.raised
             /\ analysis.outcome.err.msg = "Invalid repository URL format"
        ELSE analysis.outcome.raised
             \/ /\ analysis.outcome.value.owner = NonEmptySegments(analysis.url)[1]
                /\ ~EndsWith(NonEmptySegments(analysis.url)[2], DotGit)
                      => analysis.outcome.value.repo_name = NonEmptySegments(analysis.url)[2]
                /\ EndsWith(NonEmptySegments(analysis.url)[2], DotGit)
                      => analysis.outcome.value.repo_name \o DotGit
                            = NonEmptySegments(analysis.url)[2]

\* C4: an analysis whose primary fetch got an error status differs from the
\* analysis of the same repository whose primary fetch failed on the network.
C4_StatusDistinctFromNetworkError ==
    /\ analysis # Idle /\ analysis.op = "analyze"
    /\ ~analysis.outcome.raised
    /\ analysis.outcome.value.platform = GithubCom
    /\ analysis.session # "closed"
    /\ upstream.info = "status"
    => analysis.outcome
          # analyze([upstream EXCEPT !.info = "neterr"], analysis.session,
                    analysis.url, analysis.depth, analysis.include_contributors,
                    analysis.include_commits)


----------------------------------------------------------------------------
(* server.py under asyncio.gather: NTasks analyses of GitHub repositories  *)
(* run on one GitOSINTAnalyzer.  Each await is a step; the clock `now`     *)
(* counts seconds since the gather started.                                *)

NTasks == 3
MaxTime == 2
rate_limit_delay == 1

Tasks == 1..NTasks
\* The awaits of _analyze_github_repo, in order: four client.get and then
\* asyncio.sleep(self.rate_limit_delay).
GithubSteps == <<"repo", "contributors", "languages", "activity">>
At(step, waiting) == [step |-> step, waiting |-> waiting]
Finished(t) == t \in DOMAIN done_at

InitConc ==
    /\ cli = Idle
    /\ now = 0
    /\ pc = [t \in Tasks |-> At("repo", FALSE)]
    /\ wake = Idle
    /\ reqlog = [t \in Tasks |-> {}]
    /\ done_at = Idle
    /\ remote = NoRemote /\ call = NoCall /\ result = NoResult
    /\ upstream = Idle /\ session = "none" /\ analysis = Idle
    /\ mailbox = Idle /\ found = Idle
    /\ files = Idle /\ scanned = Idle /\ environ = Idle /\ config = Idle

StepAfter(step) ==
    CASE step = "repo" -> "contributors"
      [] step = "contributors" -> "languages"
      [] step = "languages" -> "activity"
      [] step = "activity" -> "sleep"

\* await self.client.get(...): the request goes out at once; nothing is
\* waited for before it and nothing of the analyzer is consulted.
SendRequest(t) ==
    /\ ~pc[t].waiting
    /\ \E i \in 1..Len(GithubSteps) : GithubSteps[i] = pc[t].step
    /\ pc' = [pc EXCEPT ![t] = At(pc[t].step, TRUE)]
    /\ reqlog' = [reqlog EXCEPT ![t] = @ \cup {now}]
    /\ UNCHANGED <<now, wake, done_at, notConc>>

\* The response arrives.  A request that raises ends the analysis; so does
\* a status error on the first request (raise_for_status).  After the
\* fourth response the task sleeps rate_limit_delay.
ReceiveResponse(t) ==
    /\ pc[t].waiting
    /\ \E raises \in BOOLEAN :
         IF raises
         THEN /\ pc' = [pc EXCEPT ![t] = At("raised", FALSE)]
              /\ done_at' = done_at @@ (t :> now)
              /\ wake' = wake
         ELSE /\ pc' = [pc EXCEPT ![t] = At(StepAfter(pc[t].step), FALSE)]
              /\ wake' = IF pc[t].step = "activity"
                         THEN wake @@ (t :> now + rate_limit_delay) ELSE wake
              /\ done_at' = done_at
    /\ UNCHANGED <<now, reqlog, notConc>>

\* asyncio.sleep returns and the analysis returns its record.
Wake(t) ==
    /\ pc[t] = At("sleep", FALSE)
    /\ now >= wake[t]
    /\ pc' = [pc EXCEPT ![t] = At("returned", FALSE)]
    /\ done_at' = done_at @@ (t :> now)
    /\ UNCHANGED <<now, wake, reqlog, notConc>>

Tick ==
    /\ now < MaxTime
    /\ now' = now + 1
    /\ UNCHANGED <<pc, wake, reqlog, done_at, notConc>>

NextConc ==
    \/ \E t \in Tasks : SendRequest(t)
    \/ \E t \in Tasks : ReceiveResponse(t)
    \/ \E t \in Tasks : Wake(t)
    \/ Tick
SpecConc == InitConc /\ [][NextConc]_vars

Distance(a, b) == IF a < b THEN b - a ELSE a - b

\* The requests of different operations are at least the delay apart.
RequestsOfDifferentOperationsSpaced ==
    \A t, u \in Tasks :
        t # u => \A a \in reqlog[t], b \in reqlog[u] : Distance(a, b) >= rate_limit_delay

\* The gather of n operations ends no sooner than delay * (n - 1).
GatherTakesDelayPerOperation ==
    (\A t \in Tasks : Finished(t)) =>
        \E t \in Tasks : done_at[t] >= rate_limit_delay * (NTasks - 1)

\* C7: n concurrent operations on the same platform are serialized by the
\* rate limit: no two of them issue requests within the delay of each
\* other, and together they take at least rate_limit_delay * (n - 1).
C7_ConcurrentOperationsSerialized ==
    RequestsOfDifferentOperationsSpaced /\ GatherTakesDelayPerOperation


----------------------------------------------------------------------------
(* intelligence/email_discovery.py: the no-reply patterns.                 *)

noreply_patterns ==
    { <<"n", "o", "r", "e", "p", "l", "y">>,
      <<"n", "o", "-", "r", "e", "p", "l", "y">>,
      <<"d", "o", "n", "o", "t", "r", "e", "p", "l", "y">>,
      <<"b", "o", "t", "@">>,
      <<"a", "c", "t", "i", "o", "n", "@">>,
      GithubCom,
      <<"u", "s", "e", "r", "s", ".", "n", "o", "r", "e", "p", "l", "y", ".">> \o GithubCom }

_is_noreply_email(email) ==
    \E pattern \in noreply_patterns : Contains(Lower(email), pattern)

\* C10: no address matching a no-reply pattern is in the output of email
\* discovery, for both target types.
C10_NoNoReplyAddressInOutput ==
    call.via = "mcp" /\ call.name = "find_emails" /\ ~HasError =>
        \A email \in SetOf(Answer.emails) : ~_is_noreply_email(email)


----------------------------------------------------------------------------
(* Properties of the email lists the server returns.                       *)

NoDuplicates(seq) == \A i, j \in 1..Len(seq) : i # j => seq[i] # seq[j]

\* The emails a discovery or an email search handed back, if it did.
ReturnedEmails ==
    IF call.name = "find_emails" /\ call.via = "mcp" /\ ~HasError
    THEN Answer.emails
    ELSE IF call.name = "discover_user_info" /\ call.via = "mcp" /\ ~HasError
    THEN Answer.email_addresses
    ELSE IF call.name = "discover_user_info" /\ call.via = "direct" /\ ~result.raised
    THEN result.value.email_addresses
    ELSE <<>>

----------------------------------------------------------------------------
(* intelligence/email_discovery.py: EmailDiscovery.  Confidences and       *)
(* thresholds are in tenths: 5 is 0.5.                                     *)

Letters == SetOf(UpperCase) \cup SetOf(LowerCase)
Digits == SetOf(DigitChars) \cup {"0"}
LocalChars == Letters \cup Digits \cup {".", "_", "%", "+", "-"}
DomainChars == Letters \cup Digits \cup {".", "-"}

AllIn(s, chars) == \A i \in 1..Len(s) : s[i] \in chars

\* ^[a-zA-Z0-9._%+-]+@[a-zA-Z0-9.-]+\.[a-zA-Z]{2,}$
_is_valid_email_format(email) ==
    \E i, j \in 1..Len(email) :
        /\ 1 < i /\ i + 1 < j /\ j + 2 <= Len(email)
        /\ email[i] = "@" /\ email[j] = "."
        /\ AllIn(SubSeq(email, 1, i - 1), LocalChars)
        /\ AllIn(SubSeq(email, i + 1, j - 1), DomainChars)
        /\ AllIn(SubSeq(email, j + 1, Len(email)), Letters)

_validate_email(email) == IF _is_valid_email_format(email) THEN "unknown" ELSE "invalid"

\* Placeholder implementations: nothing of the target is looked at.
_find_repository_emails(repo_url) == {}
_find_user_emails(username) == {}

validated(filtered_emails, validate) ==
    IF validate
    THEN [i \in 1..Len(filtered_emails) |->
             [filtered_emails[i] EXCEPT !.validation_status =
                                            _validate_email(filtered_emails[i].email)]]
    ELSE filtered_emails

filter_by_confidence(discovered_emails, confidence_threshold) ==
    ListOf({email \in discovered_emails : email.confidence >= confidence_threshold})

\* A find that answers an unknown target type with no emails.
find_discovered_lenient(target, target_type) ==
    IF target_type = "repository" THEN Ok(_find_repository_emails(target), <<>>)
    ELSE IF target_type = "user" THEN Ok(_find_user_emails(target), <<>>)
    ELSE Ok({}, <<>>)

find_discovered(target, target_type) ==
    IF target_type = "repository" THEN Ok(_find_repository_emails(target), <<>>)
    ELSE IF target_type = "user" THEN Ok(_find_user_emails(target), <<>>)
    ELSE Raised(ValueError("Unsupported target type", target_type), <<>>)

find_filtered(discovered, confidence_threshold, validate) ==
    IF discovered.raised THEN discovered
    ELSE Ok(validated(filter_by_confidence(discovered.value, confidence_threshold),
                      validate), <<>>)

find(target, target_type, confidence_threshold, validate) ==
    find_filtered(find_discovered(target, target_type), confidence_threshold, validate)

\* What the target's public data holds, and find's inputs.
Addresses == {MailA, MailB, MailNoAt}
Mailboxes == SUBSET Addresses
TargetTypes == {"repository", "user", "organization"}
Thresholds == {0, 5, 10}

InitEmail ==
    /\ cli = Idle
    /\ mailbox \in Mailboxes
    /\ found = Idle
    /\ session = "none"
    /\ remote = NoRemote /\ call = NoCall /\ result = NoResult
    /\ now = 0 /\ pc = Idle /\ wake = Idle /\ reqlog = Idle /\ done_at = Idle
    /\ upstream = Idle /\ analysis = Idle
    /\ files = Idle /\ scanned = Idle /\ environ = Idle /\ config = Idle

notEmailRun == <<serverVars, concVars, upstream, analysis, scanVars, configVars, cliVars>>

EmailAEnter ==
    /\ found = Idle
    /\ session' = "open"
    /\ UNCHANGED <<mailbox, found, notEmailRun>>

EmailAExit ==
    /\ found = Idle
    /\ session # "none"
    /\ session' = "closed"
    /\ UNCHANGED <<mailbox, found, notEmailRun>>

\* find creates a session when it holds none, before anything can raise,
\* and closes none.
Find ==
    \E target \in {UrlR1, Oct}, target_type \in TargetTypes,
       confidence_threshold \in Thresholds, validate \in BOOLEAN :
        /\ found = Idle
        /\ found' = [target |-> target, target_type |-> target_type,
                     confidence_threshold |-> confidence_threshold,
                     validate |-> validate, session |-> session,
                     outcome |-> find(target, target_type, confidence_threshold,
                                      validate)]
        /\ session' = session_of(session)
        /\ UNCHANGED <<mailbox, notEmailRun>>

TakeEmails ==
    /\ found # Idle
    /\ found' = Idle
    /\ UNCHANGED <<mailbox, session, notEmailRun>>

NextEmail == EmailAEnter \/ EmailAExit \/ Find \/ TakeEmails
SpecEmail == InitEmail /\ [][NextEmail]_vars

----------------------------------------------------------------------------
(* security/scanner.py: SecurityScanner.  The secret patterns are regular  *)
(* expressions applied with re.IGNORECASE; a pattern is a sequence of      *)
(* elements, each a character class with a repetition range, matched       *)
(* greedily with backtracking as re does.                                  *)

UpperChar(c) ==
    IF \E i \in 1..Len(LowerCase) : LowerCase[i] = c
    THEN UpperCase[CHOOSE i \in 1..Len(LowerCase) : LowerCase[i] = c]
    ELSE c

Quotes == {"'", "\""}
Alnum == Letters \cup Digits

One(chars) == [kind |-> "in", chars |-> chars, min |-> 1, max |-> 1, unbounded |-> FALSE]
Rep(chars, lo, hi) ==
    [kind |-> "in", chars |-> chars, min |-> lo, max |-> hi, unbounded |-> FALSE]
OneOrMore(chars) == [kind |-> "in", chars |-> chars, min |-> 1, max |-> 1, unbounded |-> TRUE]
NotOne(chars) == [kind |-> "notin", chars |-> chars, min |-> 1, max |-> 1, unbounded |-> FALSE]
\* .* : any run of characters other than a newline
DotStar == [kind |-> "notin", chars |-> {"\n"}, min |-> 0, max |-> 0, unbounded |-> TRUE]
\* A literal, each letter in either case.
Lit(str) == [i \in 1..Len(str) |-> One({LowerChar(str[i]), UpperChar(str[i])})]

secret_patterns ==
    << [secret_type |-> "aws_access_key",
        pattern |-> Lit(<<"A", "K", "I", "A">>) \o <<Rep(Alnum, 16, 16)>>],
       [secret_type |-> "aws_secret_key",
        pattern |-> <<Rep(Alnum \cup {"/", "+"}, 40, 40)>>],
       [secret_type |-> "github_token",
        pattern |-> Lit(<<"g", "h", "p", "_">>) \o <<Rep(Alnum, 36, 36)>>],
       [secret_type |-> "slack_token",
        pattern |-> Lit(<<"x", "o", "x">>)
                    \o <<One({"b", "a", "p", "r", "s", "B", "A", "P", "R", "S"}),
                         One({"-"}), Rep(Digits, 12, 12), One({"-"}),
                         Rep(Digits, 12, 12), One({"-"}), Rep(Alnum, 24, 24)>>],
       [secret_type |-> "api_key",
        pattern |-> Lit(<<"a", "p", "i">>) \o <<Rep({"_"}, 0, 1)>>
                    \o Lit(<<"k", "e", "y">>)
                    \o <<DotStar, One(Quotes), Rep(Alnum, 32, 45), One(Quotes)>>],
       [secret_type |-> "private_key",
        pattern |-> Lit(<<"-", "-", "-", "-", "-", "B", "E", "G", "I", "N", " ">>)
                    \o <<OneOrMore(Letters)>>
                    \o Lit(<<" ", "P", "R", "I", "V", "A", "T", "E", " ", "K", "E", "Y",
                             "-", "-", "-", "-", "-">>)],
       [secret_type |-> "password",
        pattern |-> Lit(<<"p", "a", "s", "s", "w", "o", "r", "d">>)
                    \o <<DotStar, One(Quotes), NotOne(Quotes), DotStar, One(Quotes)>>] >>

InClass(e, ch) == IF e.kind = "in" THEN ch \in e.chars ELSE ch \notin e.chars

\* How many characters from pos on the element can take, at most.
RECURSIVE RunLength(_, _, _, _)
RunLength(e, s, pos, n) ==
    IF (e.unbounded \/ n < e.max) /\ pos + n <= Len(s) /\ InClass(e, s[pos + n])
    THEN RunLength(e, s, pos, n + 1)
    ELSE n

\* re's match of elements k.. of the pattern at pos: the position after the
\* match, 0 when there is none.  Each element takes as much as it can and
\* gives back one character at a time while the rest does not match.
RECURSIVE MatchFrom(_, _, _, _)
RECURSIVE TryCount(_, _, _, _, _)
RECURSIVE Backtrack(_, _, _, _, _, _)
MatchFrom(pat, k, s, pos) ==
    IF k > Len(pat) THEN pos
    ELSE TryCount(pat, k, s, pos, RunLength(pat[k], s, pos, 0))
TryCount(pat, k, s, pos, n) ==
    IF n < pat[k].min THEN 0
    ELSE Backtrack(pat, k, s, pos, n, MatchFrom(pat, k + 1, s, pos + n))
Backtrack(pat, k, s, pos, n, after) ==
    IF after # 0 THEN after ELSE TryCount(pat, k, s, pos, n - 1)

\* re.finditer: the leftmost matches, none overlapping another.
RECURSIVE finditer(_, _, _)
RECURSIVE next_match(_, _, _, _)
finditer(pat, s, pos) ==
    IF pos > Len(s) THEN <<>> ELSE next_match(pat, s, pos, MatchFrom(pat, 1, s, pos))
next_match(pat, s, pos, after) ==
    IF after = 0 THEN finditer(pat, s, pos + 1)
    ELSE <<[start |-> pos, group |-> SubSeq(s, pos, after - 1)]>> \o finditer(pat, s, after)

EvidenceChars == 20
Ellipsis == <<".", ".", ".">>

\* content[:match.start()].count('\n') + 1
line_number_of(content, start) ==
    Cardinality({i \in 1..(start - 1) : content[i] = "\n"}) + 1

secret_finding(secret_type, match, content, file_path) ==
    [finding_type |-> "leaked_secret", severity |-> "HIGH",
     file_path |-> file_path,
     line_number |-> line_number_of(content, match.start),
     evidence |-> Take(match.group, EvidenceChars) \o Ellipsis,
     confidence |-> 8,
     secret_type |-> secret_type]

findings_of_matches(secret_type, matches, content, file_path) ==
    [i \in 1..Len(matches) |-> secret_finding(secret_type, matches[i], content, file_path)]

RECURSIVE detect_patterns(_, _, _)
detect_patterns(patterns, content, file_path) ==
    IF patterns = <<>> THEN <<>>
    ELSE findings_of_matches(Head(patterns).secret_type,
                             finditer(Head(patterns).pattern, content, 1),
                             content, file_path)
         \o detect_patterns(Tail(patterns), content, file_path)

_detect_secrets_in_content(content, file_path) ==
    detect_patterns(secret_patterns, content, file_path)


\* The file fetched from the contents API: its text when the answer is 200
\* and a file payload; None on any other answer, on an exception (a closed
\* session raises) and on a platform other than github.com.
_get_file_content(tree, sess, platform, file_path) ==
    IF platform = GithubCom /\ sess # "closed" /\ tree[file_path].kind = "file"
    THEN tree[file_path].content
    ELSE PyNone

\* The requests a scan of these files issues.
file_requests(platform, file_paths) == IF platform = GithubCom THEN file_paths ELSE <<>>

secrets_of(content, file_path) ==
    IF Falsy(content) THEN <<>> ELSE _detect_secrets_in_content(content, file_path)

secret_files == <<".env", "config.json", "settings.py", "application.properties">>

\* The scan given up at the first file that cannot be fetched.
RECURSIVE scan_secret_files_until_missing(_, _, _, _)
scan_secret_files_until_missing(tree, sess, platform, file_paths) ==
    IF file_paths = <<>> \/ Falsy(_get_file_content(tree, sess, platform, Head(file_paths)))
    THEN <<>>
    ELSE secrets_of(_get_file_content(tree, sess, platform, Head(file_paths)),
                    Head(file_paths))
         \o scan_secret_files_until_missing(tree, sess, platform, Tail(file_paths))

RECURSIVE scan_secret_files(_, _, _, _)
scan_secret_files(tree, sess, platform, file_paths) ==
    IF file_paths = <<>> THEN <<>>
    ELSE secrets_of(_get_file_content(tree, sess, platform, Head(file_paths)),
                    Head(file_paths))
         \o scan_secret_files(tree, sess, platform, Tail(file_paths))

_scan_secrets(tree, sess, platform) == scan_secret_files(tree, sess, platform, secret_files)

_scan_suspicious_files(tree, sess, platform) == <<>>

configuration_finding(severity, file_path, evidence, confidence, issue_type) ==
    [finding_type |-> "configuration", severity |-> severity,
     file_path |-> file_path,
     line_number |-> PyNone,
     evidence |-> evidence,
     confidence |-> confidence,
     secret_type |-> issue_type]

UserRoot == <<"U", "S", "E", "R", " ", "r", "o", "o", "t">>
UserZero == <<"U", "S", "E", "R", " ", "0">>
SecretsDot == <<"s", "e", "c", "r", "e", "t", "s", ".">>

docker_findings(dockerfile_content) ==
    IF ~Falsy(dockerfile_content)
       /\ (Contains(dockerfile_content, UserRoot) \/ Contains(dockerfile_content, UserZero))
    THEN <<configuration_finding("MEDIUM", "Dockerfile",
                                 UserRoot \o <<" ", "d", "e", "t", "e", "c", "t", "e", "d">>,
                                 9, "docker_root_user")>>
    ELSE <<>>

_scan_docker_security(tree, sess, platform) ==
    docker_findings(_get_file_content(tree, sess, platform, "Dockerfile"))

workflow_files == <<".github/workflows/ci.yml", ".github/workflows/main.yml">>

ci_findings(content, workflow_file) ==
    IF ~Falsy(content) /\ Contains(Lower(content), SecretsDot)
    THEN <<configuration_finding("LOW", workflow_file,
                                 SecretsDot \o <<" ", "r", "e", "f", "e", "r", "e", "n", "c", "e",
                                                 " ", "f", "o", "u", "n", "d">>,
                                 6, "ci_secrets_usage")>>
    ELSE <<>>

_scan_ci_security(tree, sess, platform) ==
    ci_findings(_get_file_content(tree, sess, platform, workflow_files[1]), workflow_files[1])
    \o ci_findings(_get_file_content(tree, sess, platform, workflow_files[2]),
                   workflow_files[2])

_scan_configurations(tree, sess, platform) ==
    _scan_docker_security(tree, sess, platform) \o _scan_ci_security(tree, sess, platform)

dep_files == <<"package.json", "requirements.txt", "pom.xml", "Gemfile">>

\* Placeholder: no dependency is looked up.
_check_dependency_vulnerabilities(content, file_path) == <<>>

vulnerabilities_of(content, file_path) ==
    IF Falsy(content) THEN <<>> ELSE _check_dependency_vulnerabilities(content, file_path)

RECURSIVE scan_dep_files(_, _, _, _)
scan_dep_files(tree, sess, platform, file_paths) ==
    IF file_paths = <<>> THEN <<>>
    ELSE vulnerabilities_of(_get_file_content(tree, sess, platform, Head(file_paths)),
                            Head(file_paths))
         \o scan_dep_files(tree, sess, platform, Tail(file_paths))

_scan_vulnerabilities(tree, sess, platform) == scan_dep_files(tree, sess, platform, dep_files)

severity_scores(severity) ==
    CASE severity = "LOW" -> 1
      [] severity = "MEDIUM" -> 2
      [] severity = "HIGH" -> 3
      [] severity = "CRITICAL" -> 4
      [] OTHER -> 0

RECURSIVE total_score(_)
total_score(findings) ==
    IF findings = <<>> THEN 0
    ELSE severity_scores(Head(findings).severity) + total_score(Tail(findings))

\* The thresholds applied to the sum of the scores instead of their average.
risk_level_of_sum(total, count) ==
    IF 2 * total >= 7 THEN "CRITICAL"
    ELSE IF 2 * total >= 5 THEN "HIGH"
    ELSE IF 2 * total >= 3 THEN "MEDIUM"
    ELSE "LOW"

\* The thresholds taken as strict bounds.
risk_level_of_strict(total, count) ==
    IF 2 * total > 7 * count THEN "CRITICAL"
    ELSE IF 2 * total > 5 * count THEN "HIGH"
    ELSE IF 2 * total > 3 * count THEN "MEDIUM"
    ELSE "LOW"

\* avg_score = total_score / len(findings) is compared with 3.5, 2.5 and
\* 1.5; over the integers that is 2 * total against 7, 5 and 3 * len.
risk_level_of(total, count) ==
    IF 2 * total >= 7 * count THEN "CRITICAL"
    ELSE IF 2 * total >= 5 * count THEN "HIGH"
    ELSE IF 2 * total >= 3 * count THEN "MEDIUM"
    ELSE "LOW"

_calculate_risk_level(findings) ==
    IF findings = <<>> THEN "LOW" ELSE risk_level_of(total_score(findings), Len(findings))

OfType(findings, finding_type) ==
    SelectSeq(findings, LAMBDA f : f.finding_type = finding_type)

\* One advice for each finding of the type.
recommend_each(findings, finding_type, advice) ==
    [i \in 1..Len(OfType(findings, finding_type)) |-> advice]

recommend(findings, finding_type, advice) ==
    IF OfType(findings, finding_type) # <<>> THEN <<advice>> ELSE <<>>

specific_recommendations(findings) ==
    recommend(findings, "leaked_secret", "rotate exposed credentials")
    \o recommend(findings, "suspicious_file", "remove suspicious files")
    \o recommend(findings, "vulnerability", "update dependencies")
    \o recommend(findings, "configuration", "harden configurations")

or_default(recommendations) ==
    IF recommendations = <<>> THEN <<"continue best practices">> ELSE recommendations

_generate_recommendations(findings) == or_default(specific_recommendations(findings))

scan_findings(tree, sess, platform, scan_depth) ==
    _scan_secrets(tree, sess, platform)
    \o _scan_suspicious_files(tree, sess, platform)
    \o (IF scan_depth \in {"deep", "comprehensive"}
        THEN _scan_configurations(tree, sess, platform) ELSE <<>>)
    \o (IF scan_depth = "comprehensive"
        THEN _scan_vulnerabilities(tree, sess, platform) ELSE <<>>)

scan_requests(platform, scan_depth) ==
    file_requests(platform, secret_files)
    \o (IF scan_depth \in {"deep", "comprehensive"}
        THEN file_requests(platform, <<"Dockerfile">> \o workflow_files) ELSE <<>>)
    \o (IF scan_depth = "comprehensive" THEN file_requests(platform, dep_files) ELSE <<>>)

scan_report(repository_url, scan_depth, findings, requests) ==
    Ok([repository_url |-> repository_url,
        scan_depth |-> scan_depth,
        risk_level |-> _calculate_risk_level(findings),
        findings_count |-> Len(findings),
        leaked_secrets |-> OfType(findings, "leaked_secret"),
        suspicious_files |-> OfType(findings, "suspicious_file"),
        vulnerabilities |-> OfType(findings, "vulnerability"),
        recommendations |-> _generate_recommendations(findings)],
       requests)

scan_parsed(tree, sess, repository_url, parsed, scan_depth) ==
    IF parsed.raised THEN parsed
    ELSE scan_report(repository_url, scan_depth,
                     scan_findings(tree, sess, parsed.value.platform, scan_depth),
                     scan_requests(parsed.value.platform, scan_depth))

\* The session is created, when the scanner holds none, before the URL is
\* parsed; the scan runs with it.
scan(tree, sess, repository_url, scan_depth) ==
    scan_parsed(tree, session_of(sess), repository_url,
                _parse_repository_url(repository_url), scan_depth)


\* The contents a scanned file can have.
ContentPassword ==
    <<"p", "a", "s", "s", "w", "o", "r", "d", "=", "\"", "h", "u", "n", "t",
      "e", "r", "2", "\"">>
ContentAwsKey ==
    <<"x", "=", "1", "\n", "A", "K", "I", "A", "A", "B", "C", "D", "E", "F",
      "G", "H", "I", "J", "2", "3", "4", "5", "6", "7">>
ContentGithubToken ==
    <<"t", "=", "g", "h", "p", "_", "a", "b", "c", "d", "e", "f", "g", "h",
      "i", "j", "k", "l", "m", "n", "o", "p", "q", "r", "s", "t", "u", "v",
      "w", "x", "y", "z", "0", "1", "2", "3", "4", "5", "6", "7", "8", "9">>
ContentPrivateKey ==
    <<"-", "-", "-", "-", "-", "B", "E", "G", "I", "N", " ", "R", "S", "A",
      " ", "P", "R", "I", "V", "A", "T", "E", " ", "K", "E", "Y", "-", "-",
      "-", "-", "-", "\n", "M", "I", "I", "B">>
ContentPlain ==
    <<"d", "e", "b", "u", "g", "=", "1", "\n", "n", "a", "m", "e", "=", "x">>
ContentDockerRoot ==
    <<"F", "R", "O", "M", " ", "a", "\n", "U", "S", "E", "R", " ", "r", "o",
      "o", "t">>
ContentWorkflow ==
    <<"k", ":", " ", "$", "{", "{", " ", "S", "e", "c", "r", "e", "t", "s",
      ".", "T", " ", "}", "}">>
Contents ==
    { ContentPassword, ContentAwsKey, ContentGithubToken, ContentPrivateKey,
      ContentPlain, ContentDockerRoot, ContentWorkflow, <<>> }

\* What the contents API answers for a path: a file with its text, a
\* directory listing, an error status, a network error.
File(content) == [kind |-> "file", content |-> content]
NoFile == [kind |-> "status", content |-> PyNone]
Unreachable == [kind |-> "neterr", content |-> PyNone]
Directory == [kind |-> "dir", content |-> PyNone]

ScannedPaths ==
    SetOf(secret_files) \cup {"Dockerfile"} \cup SetOf(workflow_files) \cup SetOf(dep_files)

EmptyTree == [path \in ScannedPaths |-> NoFile]
TreeClean ==
    [EmptyTree EXCEPT ![".env"] = File(ContentPlain), !["Dockerfile"] = File(ContentPlain),
                      !["package.json"] = File(ContentPlain)]
TreePassword ==
    [EmptyTree EXCEPT ![".env"] = Unreachable, !["config.json"] = File(ContentPassword)]
TreeKeys ==
    [EmptyTree EXCEPT ![".env"] = File(ContentAwsKey),
                      !["settings.py"] = File(ContentGithubToken),
                      !["application.properties"] = File(ContentPrivateKey),
                      !["config.json"] = Directory]
TreeConfigurations ==
    [EmptyTree EXCEPT !["Dockerfile"] = File(ContentDockerRoot),
                      ![".github/workflows/ci.yml"] = File(ContentWorkflow),
                      ![".github/workflows/main.yml"] = File(ContentWorkflow)]
TreeMixed ==
    [TreeConfigurations EXCEPT ![".env"] = File(ContentPassword),
                               !["requirements.txt"] = File(ContentPlain)]
Trees == {EmptyTree, TreeClean, TreePassword, TreeKeys, TreeConfigurations, TreeMixed}

ScanUrls == {UrlR1, UrlGitlab, UrlSubdomain, UrlOneSegment}
ScanDepths == {"surface", "deep", "comprehensive"}

MaxFindings == 4
FindingTypes == {"leaked_secret", "suspicious_file", "vulnerability", "configuration"}
Severities == {"LOW", "MEDIUM", "HIGH", "CRITICAL"}
ListsOver(values) == UNION {[1..n -> values] : n \in 0..MaxFindings}
\* The findings whose severities, and whose types, are the listed ones.
WithSeverities(severities) ==
    [i \in 1..Len(severities) |-> [finding_type |-> "vulnerability", severity |-> severities[i]]]
WithTypes(finding_types) ==
    [i \in 1..Len(finding_types) |-> [finding_type |-> finding_types[i], severity |-> "HIGH"]]

InitScan ==
    /\ cli = Idle
    /\ files \in Trees
    /\ scanned = Idle
    /\ session = "none"
    /\ remote = NoRemote /\ call = NoCall /\ result = NoResult
    /\ now = 0 /\ pc = Idle /\ wake = Idle /\ reqlog = Idle /\ done_at = Idle
    /\ upstream = Idle /\ analysis = Idle
    /\ mailbox = Idle /\ found = Idle
    /\ environ = Idle /\ config = Idle

notScanRun == <<serverVars, concVars, upstream, analysis, emailVars, configVars, cliVars>>

ScanAEnter ==
    /\ scanned = Idle
    /\ session' = "open"
    /\ UNCHANGED <<files, scanned, notScanRun>>

ScanAExit ==
    /\ scanned = Idle
    /\ session # "none"
    /\ session' = "closed"
    /\ UNCHANGED <<files, scanned, notScanRun>>

\* scan creates a session when the scanner holds none, before the URL is
\* parsed, and closes none.
Scan ==
    \E repository_url \in ScanUrls, scan_depth \in ScanDepths :
        /\ scanned = Idle
        /\ scanned' = [op |-> "scan", repository_url |-> repository_url,
                       scan_depth |-> scan_depth, session |-> session,
                       outcome |-> scan(files, session, repository_url, scan_depth)]
        /\ session' = session_of(session)
        /\ UNCHANGED <<files, notScanRun>>

DetectSecrets ==
    \E content \in Contents :
        /\ scanned = Idle
        /\ scanned' = [op |-> "_detect_secrets_in_content", content |-> content,
                       outcome |-> _detect_secrets_in_content(content, ".env")]
        /\ UNCHANGED <<files, session, notScanRun>>

CalculateRiskLevel ==
    \E severities \in ListsOver(Severities) :
        /\ scanned = Idle
        /\ scanned' = [op |-> "_calculate_risk_level",
                       findings |-> WithSeverities(severities),
                       outcome |-> _calculate_risk_level(WithSeverities(severities))]
        /\ UNCHANGED <<files, session, notScanRun>>

GenerateRecommendations ==
    \E finding_types \in ListsOver(FindingTypes) :
        /\ scanned = Idle
        /\ scanned' = [op |-> "_generate_recommendations",
                       findings |-> WithTypes(finding_types),
                       outcome |-> _generate_recommendations(WithTypes(finding_types))]
        /\ UNCHANGED <<files, session, notScanRun>>

TakeScan ==
    /\ scanned # Idle
    /\ scanned' = Idle
    /\ UNCHANGED <<files, session, notScanRun>>

NextScan ==
    \/ ScanAEnter \/ ScanAExit \/ Scan \/ DetectSecrets
    \/ CalculateRiskLevel \/ GenerateRecommendations \/ TakeScan
SpecScan == InitScan /\ [][NextScan]_vars


\* The matches behind the findings of _detect_secrets_in_content, in the
\* order of the findings: pattern by pattern, each pattern's matches from
\* left to right.
RECURSIVE MatchesOf(_, _)
MatchesOf(patterns, content) ==
    IF patterns = <<>> THEN <<>>
    ELSE finditer(Head(patterns).pattern, content, 1) \o MatchesOf(Tail(patterns), content)

StrictPrefixAndEllipsis(evidence, secret) ==
    /\ \E n \in 0..(Len(secret) - 1) : evidence = SubSeq(secret, 1, n) \o Ellipsis
    /\ ~Contains(evidence, secret)

\* C13: for every match of a secret pattern in a file's content, whatever
\* its length, the evidence of its finding is a strict prefix of the match
\* followed by an ellipsis and does not contain the whole match.
C13_EvidenceNeverWholeSecret ==
    scanned # Idle /\ scanned.op = "_detect_secrets_in_content" =>
        /\ Len(scanned.outcome) = Len(MatchesOf(secret_patterns, scanned.content))
        /\ \A i \in 1..Len(scanned.outcome) :
              StrictPrefixAndEllipsis(scanned.outcome[i].evidence,
                                      MatchesOf(secret_patterns, scanned.content)[i].group)

\* The part of C13 the code keeps: a match longer than the evidence length
\* is cut to a strict prefix.
EvidenceOfLongMatchIsStrictPrefix ==
    scanned # Idle /\ scanned.op = "_detect_secrets_in_content" =>
        /\ Len(scanned.outcome) = Len(MatchesOf(secret_patterns, scanned.content))
        /\ \A i \in 1..Len(scanned.outcome) :
              Len(MatchesOf(secret_patterns, scanned.content)[i].group) > EvidenceChars
              => StrictPrefixAndEllipsis(scanned.outcome[i].evidence,
                                         MatchesOf(secret_patterns, scanned.content)[i].group)

LongMatchFound ==
    /\ scanned # Idle /\ scanned.op = "_detect_secrets_in_content"
    /\ \E i \in 1..Len(scanned.outcome) :
          /\ scanned.outcome[i].secret_type = "github_token"
          /\ Len(scanned.outcome[i].evidence) = EvidenceChars + 3

CountOf(findings, severity) ==
    Cardinality({i \in 1..Len(findings) : findings[i].severity = severity})

\* Twice the sum of the scores of the severities, from their counts alone.
TwiceScore(findings) ==
    2 * (CountOf(findings, "LOW") + 2 * CountOf(findings, "MEDIUM")
         + 3 * CountOf(findings, "HIGH") + 4 * CountOf(findings, "CRITICAL"))

LevelOfSeverities(findings) ==
    IF Len(findings) = 0 THEN "LOW"
    ELSE IF TwiceScore(findings) >= 7 * Len(findings) THEN "CRITICAL"
    ELSE IF TwiceScore(findings) >= 5 * Len(findings) THEN "HIGH"
    ELSE IF TwiceScore(findings) >= 3 * Len(findings) THEN "MEDIUM"
    ELSE "LOW"

\* C14: the risk level is a function of how many findings have each
\* severity, whatever their order: with LOW = 1 .. CRITICAL = 4, an average
\* of at least 3.5 is CRITICAL, of at least 2.5 HIGH, of at least 1.5 MEDIUM,
\* below that LOW, and no finding at all is LOW.
C14_RiskLevelOfSeverityMultiset ==
    scanned # Idle /\ scanned.op = "_calculate_risk_level" =>
        scanned.outcome = LevelOfSeverities(scanned.findings)

C14_Witness ==
    /\ scanned # Idle /\ scanned.op = "_calculate_risk_level"
    /\ Len(scanned.findings) = 2
    /\ scanned.findings[1].severity = "CRITICAL" /\ scanned.findings[2].severity = "HIGH"
    /\ scanned.outcome = "CRITICAL"

C14_WitnessEmpty ==
    /\ scanned # Idle /\ scanned.op = "_calculate_risk_level"
    /\ scanned.findings = <<>> /\ scanned.outcome = "LOW"

CategoriesOf(findings) == {findings[i].finding_type : i \in 1..Len(findings)}

AdviceIfPresent(categories, finding_type, advice) ==
    IF finding_type \in categories THEN <<advice>> ELSE <<>>

AdviceFor(categories) ==
    IF categories = {} THEN <<"continue best practices">>
    ELSE AdviceIfPresent(categories, "leaked_secret", "rotate exposed credentials")
         \o AdviceIfPresent(categories, "suspicious_file", "remove suspicious files")
         \o AdviceIfPresent(categories, "vulnerability", "update dependencies")
         \o AdviceIfPresent(categories, "configuration", "harden configurations")

\* C15: the recommendations are those of the set of categories that have a
\* finding, one fixed advice for each such category however many findings
\* it has, and a scan with no finding reports the level LOW and the one
\* default recommendation.
C15_RecommendationsPerCategory ==
    /\ scanned # Idle /\ scanned.op = "_generate_recommendations" =>
          scanned.outcome = AdviceFor(CategoriesOf(scanned.findings))
    /\ scanned # Idle /\ scanned.op = "scan" /\ ~scanned.outcome.raised
       /\ scanned.outcome.value.findings_count = 0 =>
          /\ scanned.outcome.value.risk_level = "LOW"
          /\ scanned.outcome.value.recommendations = <<"continue best practices">>

C15_Witness ==
    /\ scanned # Idle /\ scanned.op = "_generate_recommendations"
    /\ Len(scanned.findings) = 3
    /\ Cardinality(CategoriesOf(scanned.findings)) = 2
    /\ Len(scanned.outcome) = 2

C15_WitnessNoFindings ==
    /\ scanned # Idle /\ scanned.op = "scan" /\ ~scanned.outcome.raised
    /\ scanned.outcome.value.findings_count = 0
    /\ files = TreeClean
    /\ scanned.outcome.value.recommendations = <<"continue best practices">>


----------------------------------------------------------------------------
(* server.py: _process_commit_activity on its own, for every sequence of   *)
(* at most MaxWeeks weekly totals.                                          *)

WeekTotals == {0, 3, 5, 8, 10}
WeekLists == UNION {[1..n -> WeekTotals] : n \in 0..MaxWeeks}

InitActivity ==
    /\ cli = Idle
    /\ call = NoCall /\ result = NoResult
    /\ remote = NoRemote
    /\ now = 0 /\ pc = Idle /\ wake = Idle /\ reqlog = Idle /\ done_at = Idle
    /\ upstream = Idle /\ session = "none" /\ analysis = Idle
    /\ mailbox = Idle /\ found = Idle
    /\ files = Idle /\ scanned = Idle /\ environ = Idle /\ config = Idle

ProcessCommitActivity ==
    \E activity_data \in WeekLists :
        /\ call = NoCall
        /\ call' = [via |-> "direct", name |-> "_process_commit_activity",
                    arguments |-> [activity_data |-> activity_data]]
        /\ result' = Ok(_process_commit_activity(activity_data), <<>>)
        /\ UNCHANGED <<remote, notServer>>

TakeActivity ==
    /\ call # NoCall
    /\ call' = NoCall /\ result' = NoResult
    /\ UNCHANGED <<remote, notServer>>

NextActivity == ProcessCommitActivity \/ TakeActivity
SpecActivity == InitActivity /\ [][NextActivity]_vars

Processed == call.name = "_process_commit_activity"
Weeks == call.arguments.activity_data

\* The sum of weeks[lo..hi].
RECURSIVE SumOver(_, _, _)
SumOver(weeks, lo, hi) == IF lo > hi THEN 0 ELSE weeks[hi] + SumOver(weeks, lo, hi - 1)

\* C16: total_commits is the sum of all the weekly totals and peak_week is
\* the largest of them; for no week at all the three figures are 0 and
\* nothing is raised.
C16_TotalAndPeak ==
    Processed =>
        /\ ~result.raised
        /\ result.value.total_commits = SumOver(Weeks, 1, Len(Weeks))
        /\ Weeks # <<>> =>
              /\ \E i \in 1..Len(Weeks) : result.value.peak_week = Weeks[i]
              /\ \A i \in 1..Len(Weeks) : result.value.peak_week >= Weeks[i]
        /\ Weeks = <<>> =>
              /\ result.value.total_commits = 0
              /\ result.value.peak_week = 0
              /\ result.value.recent_activity = 0

C16_Witness ==
    /\ Processed
    /\ Weeks = <<3, 10, 0, 8, 5>>
    /\ result.value.total_commits = 26 /\ result.value.peak_week = 10

C16_WitnessEmpty ==
    /\ Processed /\ Weeks = <<>>
    /\ result.value = [recent_activity |-> 0, peak_week |-> 0, total_commits |-> 0]

C17_WitnessFiveWeeks ==
    /\ Processed
    /\ Weeks = <<10, 5, 10, 3, 8>>
    /\ result.value.recent_activity = 26 /\ result.value.total_commits = 36


----------------------------------------------------------------------------
(* config.py: the global configuration.  environ holds the environment     *)
(* variables and the configuration file the process starts with; config    *)
(* holds the module's _config and the last call with its outcome.  A delay *)
(* is counted in tenths of a second.                                        *)

DigitValue(c) == IF c = "0" THEN 0 ELSE CHOOSE d \in 1..9 : DigitChars[d] = c

IsDigits(str) == str # <<>> /\ \A i \in 1..Len(str) : str[i] \in Digits

RECURSIVE DecimalValue(_)
DecimalValue(str) ==
    IF str = <<>> THEN 0
    ELSE 10 * DecimalValue(SubSeq(str, 1, Len(str) - 1)) + DigitValue(str[Len(str)])

Unsigned(str) == IF str # <<>> /\ str[1] \in {"-", "+"} THEN Tail(str) ELSE str
SignOf(str) == IF str # <<>> /\ str[1] = "-" THEN -1 ELSE 1

\* int(env_val): an optional sign and decimal digits.
int_of(str) ==
    IF IsDigits(Unsigned(str))
    THEN Ok(SignOf(str) * DecimalValue(Unsigned(str)), <<>>)
    ELSE Raised(ValueError("invalid literal for int()", str), <<>>)

\* float(env_val), in tenths, for the literals of the environment here: an
\* optional sign, digits and at most one decimal.
float_of_parts(str, split) ==
    IF split.found
    THEN IF IsDigits(split.before) /\ IsDigits(split.after) /\ Len(split.after) = 1
         THEN Ok(SignOf(str) * (10 * DecimalValue(split.before) + DecimalValue(split.after)),
                 <<>>)
         ELSE Raised(ValueError("could not convert string to float", str), <<>>)
    ELSE IF IsDigits(split.before)
         THEN Ok(SignOf(str) * 10 * DecimalValue(split.before), <<>>)
         ELSE Raised(ValueError("could not convert string to float", str), <<>>)

DotAt(str) == CHOOSE i \in 1..Len(str) : str[i] = "." /\ \A j \in 1..(i - 1) : str[j] # "."

point_parts(str) ==
    IF \E i \in 1..Len(str) : str[i] = "."
    THEN [found |-> TRUE, before |-> SubSeq(str, 1, DotAt(str) - 1),
          after |-> SubSeq(str, DotAt(str) + 1, Len(str))]
    ELSE [found |-> FALSE, before |-> str, after |-> <<>>]

float_of(str) == float_of_parts(str, point_parts(Unsigned(str)))

HttpsApiGithubCom == <<"h", "t", "t", "p", "s", ":", "/", "/", "a", "p", "i", ".", "g", "i", "t", "h", "u", "b", ".", "c", "o", "m">>
HttpsGitlabApi == <<"h", "t", "t", "p", "s", ":", "/", "/", "g", "i", "t", "l", "a", "b", ".", "c", "o", "m", "/", "a", "p", "i", "/", "v", "4">>
HttpInsecureCom == <<"h", "t", "t", "p", ":", "/", "/", "i", "n", "s", "e", "c", "u", "r", "e", ".", "c", "o", "m">>

\* GitOSINTConfig.default()
default ==
    [mcp |-> [rate_limit_delay |-> 10, timeout_seconds |-> 30,
              max_repositories_per_user |-> 100],
     platforms |-> [github_api_url |-> HttpsApiGithubCom,
                    gitlab_api_url |-> HttpsGitlabApi,
                    timeout_seconds |-> 30],
     security |-> [max_email_extraction |-> 10, scan_timeout |-> 60]]

TypeError(detail) == Err("TypeError", "unexpected keyword argument", detail)

\* from_dict: MCPConfig's __init__ takes no argument, so an 'mcp' section
\* with a key in it is a TypeError; PlatformConfig takes github_api_url and
\* timeout_seconds, and no 'platforms' section leaves both missing.
from_dict(data) ==
    IF data.mcp # {} THEN Raised(TypeError(<<"m", "c", "p">>), <<>>)
    ELSE IF ~data.platforms
    THEN Raised(TypeError(<<"p", "l", "a", "t", "f", "o", "r", "m", "s">>), <<>>)
    ELSE Ok([default EXCEPT !.platforms.github_api_url = data.github_api_url,
                            !.platforms.timeout_seconds = data.timeout_seconds],
            <<>>)

\* load_from_file: the first of the default locations that exists; a file
\* that is not JSON is a warning and the default configuration.
load_from_file(file) ==
    IF file.kind = "json" THEN from_dict(file) ELSE Ok(default, <<>>)

env_float(current, env_val) ==
    IF Falsy(env_val) \/ float_of(env_val).raised THEN current ELSE float_of(env_val).value

env_int(current, env_val) ==
    IF Falsy(env_val) \/ int_of(env_val).raised THEN current ELSE int_of(env_val).value

env_str(current, env_val) == IF Falsy(env_val) THEN current ELSE env_val

update_from_env(cfg, env) ==
    [cfg EXCEPT !.mcp.rate_limit_delay = env_float(@, env.GITOSINT_RATE_LIMIT_DELAY),
                !.mcp.timeout_seconds = env_int(@, env.GITOSINT_TIMEOUT),
                !.platforms.github_api_url = env_str(@, env.GITOSINT_GITHUB_API_URL)]

loaded(outcome, env) ==
    IF outcome.raised THEN outcome ELSE Ok(update_from_env(outcome.value, env), <<>>)

reload_config(env) == loaded(load_from_file(env.config_file), env)

get_config(global, env) ==
    IF global.is_none THEN reload_config(env) ELSE Ok(global.value, <<>>)

\* _config after a call: a call that raises leaves it as it was.
global_after(global, outcome) ==
    IF outcome.raised THEN global ELSE [is_none |-> FALSE, value |-> outcome.value]

validate_config(cfg) ==
    ~ \/ cfg.mcp.rate_limit_delay < 0
      \/ cfg.mcp.timeout_seconds <= 0
      \/ cfg.mcp.max_repositories_per_user <= 0
      \/ ~StartsWith(cfg.platforms.github_api_url, Https)
      \/ ~StartsWith(cfg.platforms.gitlab_api_url, Https)
      \/ cfg.security.max_email_extraction <= 0
      \/ cfg.security.scan_timeout <= 0

EnvDelays == {PyNone, <<"-", "1">>, <<"0", ".", "5">>, <<"a", "b", "c">>}
EnvTimeouts == {PyNone, <<"0">>, <<"6", "0">>, <<"1", ".", "5">>}
EnvUrls == {PyNone, HttpInsecureCom}
\* The configuration file: absent, not JSON, or a JSON object with the keys
\* of its 'mcp' section and, when it has a 'platforms' section, the two
\* settings of that section.
ConfigFile(kind, mcp, platforms, github_api_url, timeout_seconds) ==
    [kind |-> kind, mcp |-> mcp, platforms |-> platforms,
     github_api_url |-> github_api_url, timeout_seconds |-> timeout_seconds]
ConfigFiles ==
    { ConfigFile("absent", {}, FALSE, <<>>, 0),
      ConfigFile("malformed", {}, FALSE, <<>>, 0),
      ConfigFile("json", {}, TRUE, HttpInsecureCom, 0),
      ConfigFile("json", {"rate_limit_delay"}, FALSE, <<>>, 0) }
Environs ==
    [GITOSINT_RATE_LIMIT_DELAY : EnvDelays, GITOSINT_TIMEOUT : EnvTimeouts,
     GITOSINT_GITHUB_API_URL : EnvUrls, config_file : ConfigFiles]

\* The configurations handed to validate_config: the default one with one
\* or more settings changed.
ConfigInputs ==
    { [default EXCEPT !.mcp.rate_limit_delay = d, !.mcp.timeout_seconds = t,
                      !.platforms.github_api_url = u, !.security.scan_timeout = st] :
        d \in {-10, 0, 10}, t \in {-1, 0, 30}, u \in {HttpsApiGithubCom, HttpInsecureCom},
        st \in {0, 60} }

NoConfigCall ==
    [global |-> [is_none |-> TRUE, value |-> default], op |-> "none", outcome |-> NoResult]

InitConfig ==
    /\ cli = Idle
    /\ environ \in Environs
    /\ config = NoConfigCall
    /\ remote = NoRemote /\ call = NoCall /\ result = NoResult
    /\ now = 0 /\ pc = Idle /\ wake = Idle /\ reqlog = Idle /\ done_at = Idle
    /\ upstream = Idle /\ session = "none" /\ analysis = Idle
    /\ mailbox = Idle /\ found = Idle
    /\ files = Idle /\ scanned = Idle

notConfig == <<serverVars, concVars, repoVars, emailVars, scanVars, cliVars>>

GetConfig ==
    /\ config' = [global |-> global_after(config.global, get_config(config.global, environ)),
                  op |-> "get_config",
                  outcome |-> get_config(config.global, environ)]
    /\ UNCHANGED <<environ, notConfig>>

ReloadConfig ==
    /\ config' = [global |-> global_after(config.global, reload_config(environ)),
                  op |-> "reload_config",
                  outcome |-> reload_config(environ)]
    /\ UNCHANGED <<environ, notConfig>>

ValidateConfig ==
    \E cfg \in ConfigInputs :
        /\ config' = [global |-> config.global, op |-> "validate_config",
                      outcome |-> Ok([config |-> cfg, valid |-> validate_config(cfg)], <<>>)]
        /\ UNCHANGED <<environ, notConfig>>

\* The environment changes between two loads.
Setenv ==
    \E delay \in EnvDelays :
        /\ environ' = [environ EXCEPT !.GITOSINT_RATE_LIMIT_DELAY = delay]
        /\ UNCHANGED <<config, notConfig>>

NextConfig == GetConfig \/ ReloadConfig \/ ValidateConfig \/ Setenv
SpecConfig == InitConfig /\ [][NextConfig]_vars

Misconfigured(cfg) ==
    \/ cfg.mcp.rate_limit_delay < 0
    \/ cfg.mcp.timeout_seconds <= 0
    \/ \E i \in 1..Len(Https) :
          i > Len(cfg.platforms.github_api_url) \/ cfg.platforms.github_api_url[i] # Https[i]
    \/ \E i \in 1..Len(Https) :
          i > Len(cfg.platforms.gitlab_api_url) \/ cfg.platforms.gitlab_api_url[i] # Https[i]

\* C18: a configuration with a negative rate-limit delay, a timeout that is
\* not positive or an API base URL that is not HTTPS is refused by
\* validate_config, and get_config and reload_config return no such
\* configuration, whether the setting comes from the file or the environment.
C18_MisconfigurationRejected ==
    /\ config.op = "validate_config" /\ Misconfigured(config.outcome.value.config)
       => ~config.outcome.value.valid
    /\ config.op \in {"get_config", "reload_config"} /\ ~config.outcome.raised
       => ~Misconfigured(config.outcome.value)

\* The part of C18 the code keeps: validate_config refuses each of them.
ValidateConfigRefuses ==
    config.op = "validate_config" /\ Misconfigured(config.outcome.value.config)
    => ~config.outcome.value.valid

ValidateConfigRefused ==
    /\ config.op = "validate_config"
    /\ config.outcome.value.config.mcp.rate_limit_delay < 0
    /\ ~config.outcome.value.valid


----------------------------------------------------------------------------
(* The sessions of the analyzers and the domains the configuration allows. *)

SelfAcquired == analysis # Idle /\ analysis.op = "analyze" /\ analysis.session = "none"

\* C19: once an analyze that found the analyzer without a session and made
\* its own has returned or raised, the analyzer holds no open session;
\* likewise for scan and find.
C19_NoSessionLeftOpen ==
    /\ SelfAcquired => session # "open"
    /\ scanned # Idle /\ scanned.op = "scan" /\ scanned.session = "none" => session # "open"
    /\ found # Idle /\ found.session = "none" => session # "open"

\* The part of C19 the code keeps: leaving the context manager closes the
\* session the analyzer holds.
ClosedOnExit == [][AExit => session' = "closed"]_vars

DomainOf(url) == remove_www(Lower(urlparse(url).netloc))
TwoSegments(url) == Len(Split(Strip(urlparse(url).path, "/"), "/")) >= 2

\* C20: analyze on a repository URL whose domain the configuration does not
\* allow raises the error "is not allowed by configuration", creates no
\* session and sends no request.
C20_DisallowedDomainError ==
    analysis # Idle /\ analysis.op = "analyze" /\ TwoSegments(analysis.url)
    /\ DomainOf(analysis.url) \notin {<<>>, GithubCom, GitlabCom, BitbucketOrg}
    => /\ analysis.outcome.raised
       /\ analysis.outcome.err.msg = "is not allowed by configuration"
       /\ analysis.outcome.trace = <<>>
       /\ session = analysis.session

\* The part of C20 the code keeps: such a URL is refused before a session
\* is created or a request sent.
DisallowedDomainRefusedEarly ==
    analysis # Idle /\ analysis.op = "analyze" /\ TwoSegments(analysis.url)
    /\ DomainOf(analysis.url) \notin {<<>>, GithubCom, GitlabCom, BitbucketOrg}
    => /\ analysis.outcome.raised
       /\ analysis.outcome.err.type = "ValueError"
       /\ analysis.outcome.trace = <<>>
       /\ session = analysis.session

DisallowedDomainRefused ==
    /\ analysis # Idle /\ analysis.op = "analyze" /\ analysis.url = UrlMalicious
    /\ analysis.outcome.raised
    /\ analysis.outcome.err.msg = "Unsupported platform"


----------------------------------------------------------------------------
(* email_discovery.py: _calculate_email_confidence.  A confidence is       *)
(* counted in tenths.  The context of an email grows piece by piece, and   *)
(* the confidence is computed anew for each context.                       *)

BaseConfidence == 5
KeywordBonus == 2
DomainBonus == 1
RepeatBonus == 1
MaxConfidence == 10

\* str.count: the occurrences of sub in str from pos on, none overlapping
\* another, for a sub that is not empty.
RECURSIVE CountFrom(_, _, _)
CountFrom(str, sub, pos) ==
    IF pos + Len(sub) - 1 > Len(str) THEN 0
    ELSE IF SubSeq(str, pos, pos + Len(sub) - 1) = sub
    THEN 1 + CountFrom(str, sub, pos + Len(sub))
    ELSE CountFrom(str, sub, pos + 1)

confidence_keywords ==
    { <<"c", "o", "n", "t", "a", "c", "t">>,
      <<"e", "m", "a", "i", "l">>,
      <<"a", "u", "t", "h", "o", "r">>,
      <<"m", "a", "i", "n", "t", "a", "i", "n", "e", "r">> }

keyword_bonus(context_lower) ==
    IF \E keyword \in confidence_keywords : Contains(context_lower, keyword)
    THEN KeywordBonus ELSE 0

\* email.split('@')[1] is looked up in the lowered context as it is written
\* in the email; an empty domain is in every context.
domain_bonus(email, context_lower) ==
    IF HasAt(email) /\ (Split(email, "@")[2] = <<>> \/ Contains(context_lower, Split(email, "@")[2]))
    THEN DomainBonus ELSE 0

repeat_bonus(email, context_lower) ==
    IF CountFrom(context_lower, Lower(email), 1) > 1 THEN RepeatBonus ELSE 0

Min(a, b) == IF a < b THEN a ELSE b

\* The repeated email taken as the whole confidence.
confidence_of_lowered_repeat_only(email, context_lower) ==
    IF CountFrom(context_lower, Lower(email), 1) > 1 THEN RepeatBonus
    ELSE Min(BaseConfidence + keyword_bonus(context_lower)
             + domain_bonus(email, context_lower), MaxConfidence)

confidence_of_lowered(email, context_lower) ==
    Min(BaseConfidence + keyword_bonus(context_lower) + domain_bonus(email, context_lower)
        + repeat_bonus(email, context_lower), MaxConfidence)

_calculate_email_confidence(email, context) == confidence_of_lowered(email, Lower(context))

MailUpper == <<"A", "@", "X">>
MailNoDomain == <<"a", "@">>
ScoredEmails == {MailA, MailUpper, MailNoAt, MailNoDomain}

MaxPieces == 3
ContextPieces ==
    { <<"C", "o", "n", "t", "a", "c", "t", ":", " ">>,
      <<"a", "@", "x", " ">>,
      <<"x", ".", "i", "o">>,
      <<"z", "z", " ">> }

InitConfidence ==
    /\ cli = Idle
    /\ mailbox = Idle
    /\ found = Idle
    /\ session = "none"
    /\ remote = NoRemote /\ call = NoCall /\ result = NoResult
    /\ now = 0 /\ pc = Idle /\ wake = Idle /\ reqlog = Idle /\ done_at = Idle
    /\ upstream = Idle /\ analysis = Idle
    /\ files = Idle /\ scanned = Idle /\ environ = Idle /\ config = Idle

Scored(email, pieces, context) ==
    [op |-> "_calculate_email_confidence", email |-> email, pieces |-> pieces,
     context |-> context, outcome |-> _calculate_email_confidence(email, context)]

\* The confidence of an email found with no context yet.
CalculateEmailConfidence ==
    \E email \in ScoredEmails :
        /\ found = Idle
        /\ found' = Scored(email, 0, <<>>)
        /\ UNCHANGED <<mailbox, session, notEmailRun>>

\* The confidence of the same email once more of its context is read.
ExtendContext ==
    \E piece \in ContextPieces :
        /\ found # Idle
        /\ found.pieces < MaxPieces
        /\ found' = Scored(found.email, found.pieces + 1, found.context \o piece)
        /\ UNCHANGED <<mailbox, session, notEmailRun>>

TakeConfidence ==
    /\ found # Idle
    /\ found' = Idle
    /\ UNCHANGED <<mailbox, session, notEmailRun>>

NextConfidence == CalculateEmailConfidence \/ ExtendContext \/ TakeConfidence
SpecConfidence == InitConfidence /\ [][NextConfidence]_vars

ConfidenceInRange ==
    found # Idle => found.outcome >= BaseConfidence /\ found.outcome <= MaxConfidence

ConfidenceNeverDrops == ExtendContext => found'.outcome >= found.outcome

BaselineWithoutContext == found # Idle /\ found.context = <<>> /\ ~HasAt(found.email)
                          => found.outcome = BaseConfidence

\* C21: a confidence is 0.5 for an email with no signal, never drops when
\* more context with more signals is added, and is always at least 0.5 and
\* at most 1.
C21_ConfidenceMonotoneAndBounded ==
    /\ [](ConfidenceInRange /\ BaselineWithoutContext)
    /\ [][ConfidenceNeverDrops]_vars

C21_Witness ==
    /\ found # Idle
    /\ found.email = MailA /\ found.pieces = 3
    /\ found.outcome = BaseConfidence + KeywordBonus + DomainBonus + RepeatBonus


----------------------------------------------------------------------------
(* The language shares of an analysis: each share is the fraction num/den. *)

Analyzed == analysis # Idle /\ analysis.op = "analyze" /\ ~analysis.outcome.raised
Languages == analysis.outcome.value.languages
LanguagesFetched ==
    /\ Analyzed
    /\ analysis.outcome.value.platform = GithubCom
    /\ analysis.session # "closed" /\ upstream.languages = "ok"

RECURSIVE SumOfShares(_, _)
SumOfShares(shares, den) ==
    IF shares = <<>> THEN 0
    ELSE (Head(shares).num * den) \div Head(shares).den + SumOfShares(Tail(shares), den)

\* C22: every language share lies in [0, 100] and the shares sum to at most
\* 100, to 100 exactly when the bytes are not all zero; when they are, the
\* byte counts are returned as they are and nothing is divided by zero.
C22_LanguageShares ==
    /\ Analyzed =>
          \A i \in 1..Len(Languages) :
              /\ Languages[i].den > 0
              /\ 0 <= Languages[i].num /\ Languages[i].num <= 100 * Languages[i].den
    /\ LanguagesFetched =>
          /\ Len(Languages) = Len(upstream.bytes)
          /\ SumOver(upstream.bytes, 1, Len(upstream.bytes)) > 0 =>
                /\ \A i \in 1..Len(Languages) :
                      /\ Languages[i].den = SumOver(upstream.bytes, 1, Len(upstream.bytes))
                      /\ Languages[i].num = 100 * upstream.bytes[i]
                /\ SumOfShares(Languages, Languages[1].den) = 100 * Languages[1].den
          /\ SumOver(upstream.bytes, 1, Len(upstream.bytes)) = 0 =>
                \A i \in 1..Len(Languages) :
                    Languages[i].num = upstream.bytes[i] /\ Languages[i].den = 1

C22_Witness ==
    /\ LanguagesFetched
    /\ upstream.bytes = <<1, 1, 1>>
    /\ Languages[1] = [num |-> 100, den |-> 3]

C22_WitnessZeroBytes ==
    /\ LanguagesFetched
    /\ upstream.bytes = <<0, 0>>
    /\ Languages = <<[num |-> 0, den |-> 1], [num |-> 0, den |-> 1]>>


----------------------------------------------------------------------------
(* The facets of an analysis.                                              *)

FacetOrder ==
    <<"basic_info", "contributors", "languages", "topics", "branches", "releases",
      "commit_analysis">>
PlaceOf(facet) == CHOOSE k \in 1..Len(FacetOrder) : FacetOrder[k] = facet
Called(facet) == \E i \in 1..Len(analysis.calls) : analysis.calls[i] = facet
Present(facet) ==
    \E i \in 1..Len(analysis.outcome.value.detailed) :
        analysis.outcome.value.detailed[i] = facet

\* C23: branches and releases are fetched, and in the result, exactly at
\* depth "detailed"; the commit statistics exactly at depth "detailed" with
\* include_commits; and whatever is fetched is fetched in the order basic
\* info, contributors, languages, topics, branches, releases, commits.
C23_DepthGating ==
    Analyzed =>
        /\ \A facet \in {"branches", "releases"} :
              /\ Called(facet) <=> analysis.depth = "detailed"
              /\ Present(facet) <=> analysis.depth = "detailed"
        /\ Called("commit_analysis") <=> (analysis.depth = "detailed" /\ analysis.include_commits)
        /\ Present("commit_analysis") <=> (analysis.depth = "detailed" /\ analysis.include_commits)
        /\ \A i, j \in 1..Len(analysis.calls) :
              i < j => PlaceOf(analysis.calls[i]) < PlaceOf(analysis.calls[j])

C23_Witness ==
    /\ Analyzed
    /\ analysis.depth = "basic" /\ analysis.include_commits
    /\ analysis.calls = <<"basic_info", "contributors", "languages">>

C23_WitnessDetailed ==
    /\ Analyzed
    /\ analysis.depth = "detailed" /\ analysis.include_commits
    /\ Len(analysis.calls) = 7


----------------------------------------------------------------------------
(* The files of a scan.                                                    *)

Scanned == scanned # Idle /\ scanned.op = "scan"
Report == scanned.outcome.value
\* The scan could fetch the file: from github.com, over a session that is
\* not closed, and the answer is a file.
Fetchable(path) ==
    /\ DomainOf(scanned.repository_url) = GithubCom
    /\ scanned.session # "closed"
    /\ files[path].kind = "file"
ConfigurationFindings ==
    Cardinality({path \in {"Dockerfile"} : Fetchable(path)
                                           /\ docker_findings(files[path].content) # <<>>})
    + Cardinality({path \in SetOf(workflow_files) :
                     Fetchable(path) /\ ci_findings(files[path].content, path) # <<>>})

\* C24: a file that is missing or cannot be fetched gives no finding and
\* stops nothing: the scan raises for no file, every finding is of a file
\* that was fetched, and every fetched file with a secret has its finding.
C24_UnfetchableFilesSkipped ==
    Scanned =>
        /\ scanned.outcome.raised <=> _parse_repository_url(scanned.repository_url).raised
        /\ ~scanned.outcome.raised =>
              /\ \A i \in 1..Len(Report.leaked_secrets) :
                    Fetchable(Report.leaked_secrets[i].file_path)
              /\ \A path \in SetOf(secret_files) :
                    Fetchable(path) /\ _detect_secrets_in_content(files[path].content, path) # <<>>
                    => \E i \in 1..Len(Report.leaked_secrets) :
                          Report.leaked_secrets[i].file_path = path
              /\ Report.findings_count
                 = Len(Report.leaked_secrets)
                   + (IF scanned.scan_depth = "surface" THEN 0 ELSE ConfigurationFindings)

C24_Witness ==
    /\ Scanned /\ ~scanned.outcome.raised
    /\ files = TreeKeys
    /\ files["config.json"].kind = "dir"
    /\ \E i \in 1..Len(Report.leaked_secrets) :
          Report.leaked_secrets[i].file_path = "settings.py"

C24_WitnessOtherPlatform ==
    /\ Scanned /\ ~scanned.outcome.raised
    /\ files = TreeMixed
    /\ scanned.repository_url = UrlGitlab
    /\ Report.findings_count = 0


----------------------------------------------------------------------------
(* The social network of a user.                                           *)

Mapped ==
    /\ call.via = "mcp" /\ call.name = "map_social_network"
    /\ ~Falsy(call.arguments.username)
Seed == call.arguments.username
SeedIntel == discover_user_info(Seed, Github)
\* The repositories the mapping examines.
Examined == IF SeedIntel.raised THEN <<>> ELSE Take(SeedIntel.value.repositories, TopRepos)
IntelOf(name) == analyze_repository(Https \o GithubCom \o Slash \o Seed \o Slash \o name)

\* C25: the mapping returns a network whatever fails; an examined
\* repository has an entry in connections exactly when its analysis
\* succeeded, and nothing else has one; when the discovery of the seed user
\* fails the network is empty.
C25_FailedRepositorySkipped ==
    Mapped =>
        /\ ~HasError
        /\ Answer.center = Seed
        /\ \A i \in 1..Len(Examined) :
              Examined[i].name \in DOMAIN Answer.connections
              <=> ~IntelOf(Examined[i].name).raised
        /\ \A name \in DOMAIN Answer.connections :
              \E i \in 1..Len(Examined) : Examined[i].name = name
        /\ SeedIntel.raised => DOMAIN Answer.connections = {} /\ Answer.total_connections = 0

C25_Witness ==
    /\ Mapped /\ ~HasError
    /\ remote.nrepos = 3
    /\ remote.fault.at = "primary" /\ remote.fault.repo = 2
    /\ DOMAIN Answer.connections = {RepoName(1), RepoName(3)}

C25_WitnessSeedFails ==
    /\ Mapped /\ ~HasError
    /\ Seed = Oct /\ SeedIntel.raised
    /\ DOMAIN Answer.connections = {}

EdgesOf(edges, login, contributions) ==
    {e \in 1..Len(edges) : edges[e].username = login /\ edges[e].contributions = contributions}

EdgesMatch(edges, contributors) ==
    /\ \A e \in 1..Len(edges) : edges[e].username # Seed
    /\ \A k \in 1..Len(contributors) :
          Cardinality(EdgesOf(edges, contributors[k].login, contributors[k].contributions))
          = (IF contributors[k].login = Seed THEN 0 ELSE 1)
    /\ Len(edges) = Cardinality({k \in 1..Len(contributors) : contributors[k].login # Seed})

\* C26: no edge of the network names the seed user, and in every recorded
\* repository each contributor other than the seed user is exactly one
\* edge, with that contributor's contribution count.
C26_SeedUserNeverAnEdge ==
    Mapped /\ ~HasError =>
        \A name \in DOMAIN Answer.connections :
            EdgesMatch(Answer.connections[name], IntelOf(name).value.contributors)

C26_Witness ==
    /\ Mapped /\ ~HasError
    /\ remote.shape.seedAt = 1 /\ remote.shape.n1 = 2
    /\ RepoName(1) \in DOMAIN Answer.connections
    /\ Len(Answer.connections[RepoName(1)]) = 1
    /\ Len(IntelOf(RepoName(1)).value.contributors) = 2

RECURSIVE SumOfLengths(_, _)
SumOfLengths(connections, names) ==
    IF names = {} THEN 0
    ELSE Len(connections[CHOOSE n \in names : TRUE])
         + SumOfLengths(connections, names \ {CHOOSE n \in names : TRUE})

RequestedDepth ==
    IF call.arguments.depth = AbsentInt THEN DefaultDepth ELSE call.arguments.depth

\* C30: total_connections is the sum of the lengths of the edge lists in
\* connections, the depth asked for is in the result as it was given, and
\* another depth would examine the same repositories with the same result.
C30_TotalIsSumAndDepthEchoed ==
    Mapped /\ ~HasError =>
        /\ Answer.total_connections
           = SumOfLengths(Answer.connections, DOMAIN Answer.connections)
        /\ Answer.depth = RequestedDepth
        /\ \A depth \in Depths \cup {DefaultDepth} :
              /\ map_social_network(Seed, depth).trace = result.trace
              /\ map_social_network(Seed, depth).value.connections = Answer.connections

C30_Witness ==
    /\ Mapped /\ ~HasError
    /\ call.arguments.depth = 3 /\ Answer.depth = 3
    /\ remote.fault.at = "contributors" /\ remote.fault.kind = "neterr"
    /\ remote.fault.repo = 1 /\ remote.nrepos = 2
    /\ Answer.total_connections > 0


----------------------------------------------------------------------------
(* The command line: one run of main.                                      *)

Commands == {"analyze-repo", "discover-user", "find-emails", "map-network", "scan-security"}
\* The command line: a subcommand, none, --version, or a word argparse
\* rejects; with or without --json.
Argv == [command : Commands \cup {"", "--version", "bogus"}, json : BOOLEAN]
NoArgv == [command |-> "", json |-> FALSE]
\* What awaiting the command does: a result with success true or false,
\* or an exception.
Outcomes == {"success", "failed", "KeyboardInterrupt", "Exception", "CancelledError"}

notCli == <<serverVars, concVars, repoVars, emailVars, scanVars, configVars>>

ends_with(c, how) == [c EXCEPT !.pc = "exit", !.ends = how]

\* main up to the construction of the GitOSINTCLI: argparse leaves with
\* SystemExit for --version and for a command it does not know, and main
\* returns after print_help when no command is given.
parse_args(c, argv) ==
    IF argv.command = "bogus" THEN ends_with([c EXCEPT !.argv = argv], "SystemExit(2)")
    ELSE IF argv.command = "--version" THEN ends_with([c EXCEPT !.argv = argv], "SystemExit(0)")
    ELSE IF argv.command = "" THEN ends_with([c EXCEPT !.argv = argv], "return")
    ELSE [c EXCEPT !.argv = argv, !.constructed = TRUE, !.pc = "try"]

\* The await of the command inside the try statement.
run_command(c, outcome) ==
    IF outcome \in {"success", "failed"}
    THEN [c EXCEPT !.outcome = outcome, !.pc = "output"]
    ELSE IF outcome = "KeyboardInterrupt"
    THEN [c EXCEPT !.outcome = outcome, !.pc = "except KeyboardInterrupt"]
    ELSE IF outcome = "Exception"
    THEN [c EXCEPT !.outcome = outcome, !.pc = "except Exception"]
    ELSE [c EXCEPT !.outcome = outcome, !.pc = "finally", !.pending = outcome]

\* print of a text with an emoji raises UnicodeEncodeError when stdout
\* cannot encode it.
print_raises(c) == c.stdout = "ascii"

\* The output of the result and the exit code: sys.exit(1) for a result
\* whose success is false.
output(c) ==
    IF ~c.argv.json /\ print_raises(c) THEN [c EXCEPT !.pc = "except Exception"]
    ELSE IF c.outcome = "failed" THEN [c EXCEPT !.pc = "finally", !.pending = "SystemExit(1)"]
    ELSE [c EXCEPT !.pc = "finally", !.pending = "return"]

\* Either except clause: a message, then sys.exit(1).
except_clause(c) ==
    IF print_raises(c) THEN [c EXCEPT !.pc = "finally", !.pending = "UnicodeEncodeError"]
    ELSE [c EXCEPT !.pc = "finally", !.pending = "SystemExit(1)"]

\* close awaited only when the try statement is left by falling through.
close_after_try(c) ==
    IF c.pending = "return"
    THEN ends_with([c EXCEPT !.closes = @ + 1], "return")
    ELSE ends_with(c, c.pending)

\* The finally clause: await cli.close(), then what was pending, unless
\* close itself raises.
finally_close(c) ==
    IF c.aclose = "raises"
    THEN ends_with([c EXCEPT !.closes = @ + 1], "Exception")
    ELSE ends_with([c EXCEPT !.closes = @ + 1], c.pending)

InitCli ==
    /\ cli \in [pc : {"main"}, stdout : {"utf-8", "ascii"}, aclose : {"ok", "raises"},
                argv : {NoArgv}, constructed : {FALSE}, closes : {0},
                outcome : {"none"}, pending : {"none"}, ends : {"none"}]
    /\ remote = NoRemote /\ call = NoCall /\ result = NoResult
    /\ now = 0 /\ pc = Idle /\ wake = Idle /\ reqlog = Idle /\ done_at = Idle
    /\ upstream = Idle /\ session = "none" /\ analysis = Idle
    /\ mailbox = Idle /\ found = Idle
    /\ files = Idle /\ scanned = Idle
    /\ environ = Idle /\ config = Idle

ParseArgs ==
    \E argv \in Argv :
        /\ cli.pc = "main"
        /\ cli' = parse_args(cli, argv)
        /\ UNCHANGED notCli

RunCommand ==
    \E outcome \in Outcomes :
        /\ cli.pc = "try"
        /\ cli' = run_command(cli, outcome)
        /\ UNCHANGED notCli

Output ==
    /\ cli.pc = "output"
    /\ cli' = output(cli)
    /\ UNCHANGED notCli

ExceptKeyboardInterrupt ==
    /\ cli.pc = "except KeyboardInterrupt"
    /\ cli' = except_clause(cli)
    /\ UNCHANGED notCli

ExceptException ==
    /\ cli.pc = "except Exception"
    /\ cli' = except_clause(cli)
    /\ UNCHANGED notCli

Finally ==
    /\ cli.pc = "finally"
    /\ cli' = finally_close(cli)
    /\ UNCHANGED notCli

NextCli ==
    \/ ParseArgs \/ RunCommand \/ Output
    \/ ExceptKeyboardInterrupt \/ ExceptException \/ Finally
\* The event loop runs main until it ends.
SpecCli == InitCli /\ [][NextCli]_vars /\ WF_vars(NextCli)

\* How main ends on the paths where stdout takes the messages and close
\* does not raise.
EndsOf(outcome) ==
    IF outcome = "success" THEN "return"
    ELSE IF outcome = "CancelledError" THEN "CancelledError"
    ELSE "SystemExit(1)"

ClosedOnceAtExit ==
    /\ cli.closes <= 1
    /\ ~cli.constructed => cli.closes = 0
    /\ cli.pc = "exit" /\ cli.constructed => cli.closes = 1
    /\ cli.pc = "exit" /\ cli.constructed /\ cli.stdout = "utf-8" /\ cli.aclose = "ok"
       => cli.ends = EndsOf(cli.outcome)

\* C27: once the GitOSINTCLI is constructed, close is awaited, and exactly
\* once, however main ends: a command that succeeds (main returns), a
\* result that failed, KeyboardInterrupt and an unexpected exception (each
\* SystemExit with code 1).
C27_CloseAwaitedOnce ==
    /\ []ClosedOnceAtExit
    /\ (cli.constructed ~> (cli.pc = "exit" /\ cli.closes = 1))

C27_Witness ==
    /\ cli.pc = "exit" /\ cli.constructed /\ cli.closes = 1
    /\ cli.outcome = "KeyboardInterrupt" /\ cli.ends = "SystemExit(1)"

C27_WitnessFailedResult ==
    /\ cli.pc = "exit" /\ cli.constructed /\ cli.closes = 1
    /\ cli.outcome = "failed" /\ cli.ends = "SystemExit(1)"

C27_WitnessException ==
    /\ cli.pc = "exit" /\ cli.constructed /\ cli.closes = 1
    /\ cli.outcome = "Exception" /\ cli.ends = "SystemExit(1)"

C27_WitnessSuccess ==
    /\ cli.pc = "exit" /\ cli.constructed /\ cli.closes = 1
    /\ cli.outcome = "success" /\ cli.ends = "return"


----------------------------------------------------------------------------
(* The risk level and the count of a scan against its findings.            *)

RanksOf(findings) == {severity_scores(findings[i].severity) : i \in 1..Len(findings)}

Between(level, findings) ==
    /\ \E low \in RanksOf(findings) : low <= severity_scores(level)
    /\ \E high \in RanksOf(findings) : severity_scores(level) <= high

\* The findings a scan of the repository collects.
FindingsOfScan ==
    scan_findings(files, session_of(scanned.session),
                  _parse_repository_url(scanned.repository_url).value.platform,
                  scanned.scan_depth)

ScanReported == scanned # Idle /\ scanned.op = "scan" /\ ~scanned.outcome.raised

\* C28: the risk level of a non-empty list of findings is no lower than
\* the lowest and no higher than the highest severity in it; the findings
\* of a scan are LOW, MEDIUM or HIGH, so a scan never reports CRITICAL.
C28_RiskLevelWithinSeverities ==
    /\ scanned # Idle /\ scanned.op = "_calculate_risk_level" /\ scanned.findings # <<>>
       => Between(scanned.outcome, scanned.findings)
    /\ ScanReported =>
          /\ RanksOf(FindingsOfScan) \subseteq {1, 2, 3}
          /\ Report.risk_level = _calculate_risk_level(FindingsOfScan)
          /\ FindingsOfScan # <<>> => Between(Report.risk_level, FindingsOfScan)
          /\ Report.risk_level # "CRITICAL"

C28_Witness ==
    /\ scanned # Idle /\ scanned.op = "_calculate_risk_level"
    /\ Len(scanned.findings) = 2
    /\ scanned.findings[1].severity = "LOW" /\ scanned.findings[2].severity = "LOW"
    /\ scanned.outcome = "LOW"

C28_WitnessStrictlyBetween ==
    /\ scanned # Idle /\ scanned.op = "_calculate_risk_level"
    /\ RanksOf(scanned.findings) = {1, 4}
    /\ scanned.outcome = "HIGH"

C28_WitnessScan ==
    /\ ScanReported
    /\ RanksOf(FindingsOfScan) = {1, 2, 3}
    /\ Report.risk_level = "MEDIUM"

ReturnedFindings ==
    Len(Report.leaked_secrets) + Len(Report.suspicious_files) + Len(Report.vulnerabilities)

\* C29: findings_count of a scan's result is the number of findings in the
\* lists the result returns (leaked_secrets, suspicious_files,
\* vulnerabilities).
C29_CountIsReturnedFindings ==
    ScanReported => Report.findings_count = ReturnedFindings

\* What holds instead: the count is that of the findings collected, the
\* configuration findings included, which no returned list holds.
CountIsCollectedFindings ==
    ScanReported =>
        /\ Report.findings_count = Len(FindingsOfScan)
        /\ Report.findings_count
           = ReturnedFindings + Len(OfType(FindingsOfScan, "configuration"))

ConfigurationFindingsCounted ==
    /\ ScanReported
    /\ scanned.scan_depth = "deep"
    /\ Report.findings_count > 0 /\ ReturnedFindings = 0

====
